---- MODULE Spec2Model ----
(***************************************************************************)
(* GoCoroutine: the suspension switcher (src/concurrence/switcher.h) and   *)
(* the lock-free ring queue (src/common/error.cpp, lock_free_ring_queue.h) *)
(* as state machines.  Every atomic access of the code is one step.        *)
(***************************************************************************)
EXTENDS Integers, Sequences, FiniteSets, TLC

\* ------------------------------------------------------------------ bounds
\* Number of threads calling PThreadSwitcher::wake().
NumWakers == 2
\* Largest capacity handed to the LockFreeRingQueue constructor.
MaxRequested == 4
\* Number of Push calls started in one run (each pushes a fresh value).
MaxPush == 6
\* Number of Push calls started in a run with several producers and consumers.
MaxRacingPush == 3
\* Producer and consumer threads of the multi-threaded test.
NumProducers == 2
NumConsumers == 2
\* Number of low bits set freely in the capacities handed to reCapacity.
MaxLowBits == 2
\* Elements, queues, list handles and outside owners of the TSQueue runs.
NumElements == 3
NumQueues == 2
NumLists == 2
MaxOwners == 1
\* Threads pushing to and popping from one TSQueue concurrently.
NumTsThreads == 3
\* Nodes and lists of the LinkedList runs.
NumLlNodes == 3
NumLlLists == 2
\* Contexts of one carrier thread, and the switches made between them.
NumContexts == 3
MaxSwaps == 6
\* Registration levels tried, and the length of a registered kind list.
MaxLevel == 2
MaxKinds == 2
\* Addresses are AddrBits wide; a stack starts in one of the first
\* MaxBasePage pages after page 0, is up to MaxStackPages pages long and gets
\* up to MaxGuardPages guard pages.
AddrBits == 16
MaxBasePage == 4
MaxStackPages == 4
MaxGuardPages == 2
\* The runs checked for termination make MaxFairPush Push calls.
MaxFairPush == 2
\* Reference counting: NumWkThreads threads share one SharedRefWrapper object and
\* hold at most MaxHandles strong and MaxHandles weak handles to it.
NumWkThreads == 2
MaxHandles == 2
\* Anys: NumAnThreads threads register up to MaxKeys types of at most MaxTypeSize
\* bytes, aligned to at most 2^MaxAlignBits, and construct up to MaxInstances instances.
NumAnThreads == 2
MaxKeys == 3
MaxTypeSize == 4
MaxAlignBits == 2
MaxInstances == 2

VARIABLES
    \* PThreadSwitcher
    waiting_,       \* std::atomic_bool waiting_
    mtx_,           \* std::mutex mtx_: the set of threads holding it (at most one)
    cv_,            \* std::condition_variable cv_: the threads blocked in wait
    sw_pc,          \* position of every switcher thread
    sw_ret,         \* value returned by each wake() call ("none" before it returns)
    wakeAfterMark,  \* wakers whose wake() was called after mark() had returned
    \* LockFreeRingQueue
    capacity_,      \* std::size_t capacity_ (number of slots)
    buffer_,        \* T *buffer_: slot -> [live, val]
    write_, writable_, read_, readable_,
    role,           \* what each ring thread does: "producer", "consumer", "both", "none"
    rq_pc,          \* position of every ring thread
    loc,            \* locals of the running Push/Pop call of every ring thread
    result,         \* LockFreeResult of the last call of every ring thread
    nextVal,        \* next fresh value handed to Push
    budget,         \* number of Push calls the threads make in this run
    pushed,         \* values published by Push, in publication order
    popped,         \* values moved out by Pop, in order
    emptySeen,      \* a Pop found the queue empty and no Push has completed since
    hazard,         \* slot accesses that raced: "rawread", "overwrite"
    \* LockFreeRingQueue::reCapacity on the default SizeType, bit by bit
    rc_requested,   \* the constructor's argument, as the set of its one bits
    rc_capacity,    \* reCapacity's variable `capacity`, then its return value
    rc_pc,          \* position inside reCapacity
    \* TSQueue, SList and the reference counts of their elements
    hook,           \* TSQueueHook of every node: [prev, next, check_]
    queue,          \* every TSQueue: [head_, tail_, count_]
    slist,          \* every SList handle: [head_, tail_, count_]
    refCount,       \* *refCount_ of every element
    destroyed,      \* elements whose DecRef ran `delete this`
    owners,         \* references held outside the containers, per element
    ts_lock,        \* LFLock of every queue: the thread holding it, or 0
    ts_pc,          \* position of every queue thread
    ts_call,        \* the running or last call of every queue thread
    ts_abort,       \* an assert has failed: the program has aborted
    \* LinkedList and the wait queue built on it
    ll_node,        \* LinkedNode of every node: [prev, next]
    ll_list,        \* every LinkedList: [head_, tail_]
    ll_order,       \* per list, the nodes pushed and not unlinked since, in push order
    ll_call,        \* the last call: [op, l, n, ret, pos]
    ll_gone,        \* per node, the list and position it was unlinked from, until pushed
                    \* again (kept while callers hand unlink no node of another list)
    ll_crash,       \* a null pointer was dereferenced: the program has crashed
    ll_foreign,     \* whether callers hand unlink nodes of other lists
    wq_lock,        \* the wait queue's structural lock: the thread holding it, or 0
    wq_pc,          \* position of every thread inside wait / wake_one
    wq_got,         \* the record each wake_one unlinked, or 0
    \* Context switching on one carrier thread
    cx_cur,         \* what runs on the carrier thread: 0 its own stack, else a Context
    cx_ctx,         \* ctx_ of every Context: the saved state it names
    cx_tls,         \* tls_context of the carrier thread
    cx_susp,        \* per stack, the call it is suspended in, or -1 when it runs
    cx_entered,     \* per Context, how it was last entered and from where
    cx_call,        \* the last call: [op, c, entered, resumed]
    cx_seq,         \* calls made so far
    cx_ub,          \* control was transferred to a saved state that no longer exists
    \* RoutineSyncPolicy
    pl_level,       \* refOverlappedLevel()
    pl_kinds,       \* the kind list behind clsRefFunction() / isInPThreadFunction(), <<>> when empty
    pl_inited,      \* routine_sync_init_callback() has run
    pl_best,        \* highest level of the registrations that succeeded, -1 before the first
    pl_call,        \* the last call: [op, level, kinds, before, in, ret]
    \* Stack guard pages of a Context
    gp_pageNum,     \* StackTraits::GetProtectStackPageSize()
    gp_ctx,         \* the Context: [state, stack_, stackSize_, protectPage_, guard]
    gp_prot,        \* access protection of every page of the address space
    gp_call,        \* the last call: [op, installed, unprotect, changed]
    \* SharedRefWrapper, its RefObjectImpl control block, IncursivePtr and WeakPtr
    reference_,     \* RefObjectImpl::reference_, the strong count (RefObject::refCount_ points at it)
    weak_,          \* RefObjectImpl::weak_
    wk_deleted,     \* how often `delete this` ran on the SharedRefWrapper object (0, 1, 2 = more than once)
    wk_freed,       \* how often the RefObjectImpl block was deleted (0, 1, 2 = more than once)
    wk_strong,      \* IncursivePtr handles every thread holds
    wk_weak,        \* WeakPtr handles every thread holds
    wk_pc,          \* position of every thread inside its running call
    wk_loc,         \* locals of the running Lock(): [count, start, cas]
    wk_zero,        \* the strong count has reached zero: `delete this` has run
    wk_call,        \* the last Lock() that returned: [op, ret, start, cas]
    wk_ub,          \* a freed control block or a deleted object has been accessed
    \* the destructor of the LockFreeRingQueue
    rq_dtor,        \* ~LockFreeRingQueue: [run, destroyed, raw, left]
    \* Anys<Group>: the registry of one group and its instances
    an_keys,        \* GetKeys(): KeyInfo [align, size, offset] of every registered type
    an_storageLen,  \* StorageLen()
    an_size,        \* Size()
    an_mutex,       \* GetMutex(): the thread holding it, or 0
    an_guard,       \* GetInitGuard().flag
    an_pc,          \* position of every thread inside Register / Anys()
    an_loc,         \* the running Register: [type, after, early]
    an_inst,        \* the instance constructed last: [built, n, len, offsets_]
    an_built,       \* constructors that have returned
    an_begun,       \* a constructor has been entered
    an_done,        \* Register calls that have returned an index
    an_call         \* the last Register that returned or threw: [op, ret, after, early, nth, added]

swVars == <<waiting_, mtx_, cv_, sw_pc, sw_ret, wakeAfterMark>>
rqVars == <<capacity_, buffer_, write_, writable_, read_, readable_, role, rq_pc,
            loc, result, nextVal, budget, pushed, popped, emptySeen, hazard>>
rcVars == <<rc_requested, rc_capacity, rc_pc>>
tsVars == <<hook, queue, slist, refCount, destroyed, owners, ts_lock, ts_pc,
            ts_call, ts_abort>>
llVars == <<ll_node, ll_list, ll_order, ll_call, ll_gone, ll_crash, ll_foreign, wq_lock, wq_pc, wq_got>>
cxVars == <<cx_cur, cx_ctx, cx_tls, cx_susp, cx_entered, cx_call, cx_seq, cx_ub>>
plVars == <<pl_level, pl_kinds, pl_inited, pl_best, pl_call>>
gpVars == <<gp_pageNum, gp_ctx, gp_prot, gp_call>>
wkVars == <<reference_, weak_, wk_deleted, wk_freed, wk_strong, wk_weak, wk_pc, wk_loc, wk_zero, wk_call, wk_ub>>
rdVars == <<rq_dtor>>
anVars == <<an_keys, an_storageLen, an_size, an_mutex, an_guard, an_pc, an_loc, an_inst, an_built, an_begun, an_done, an_call>>
vars == <<swVars, rqVars, rcVars, tsVars, llVars, cxVars, plVars, gpVars, wkVars, rdVars, anVars>>
\* What the operations of one component leave alone.
exceptSw == <<rqVars, rcVars, tsVars, llVars, cxVars, plVars, gpVars, wkVars, rdVars, anVars>>
exceptRq == <<swVars, rcVars, tsVars, llVars, cxVars, plVars, gpVars, wkVars, rdVars, anVars>>
exceptRc == <<swVars, rqVars, tsVars, llVars, cxVars, plVars, gpVars, wkVars, rdVars, anVars>>
exceptTs == <<swVars, rqVars, rcVars, llVars, cxVars, plVars, gpVars, wkVars, rdVars, anVars>>
exceptLl == <<swVars, rqVars, rcVars, tsVars, cxVars, plVars, gpVars, wkVars, rdVars, anVars>>
exceptCx == <<swVars, rqVars, rcVars, tsVars, llVars, plVars, gpVars, wkVars, rdVars, anVars>>
exceptPl == <<swVars, rqVars, rcVars, tsVars, llVars, cxVars, gpVars, wkVars, rdVars, anVars>>
exceptGp == <<swVars, rqVars, rcVars, tsVars, llVars, cxVars, plVars, wkVars, rdVars, anVars>>
exceptWk == <<swVars, rqVars, rcVars, tsVars, llVars, cxVars, plVars, gpVars, rdVars, anVars>>
exceptRd == <<swVars, rqVars, rcVars, tsVars, llVars, cxVars, plVars, gpVars, wkVars, anVars>>
exceptDestroy == <<swVars, rcVars, tsVars, llVars, cxVars, plVars, gpVars, wkVars, anVars>>
exceptAn == <<swVars, rqVars, rcVars, tsVars, llVars, cxVars, plVars, gpVars, wkVars, rdVars>>

\* ============================================================ PThreadSwitcher
Wakers == 1..NumWakers
Sleeper == NumWakers + 1
SwThreads == Wakers \cup {Sleeper}

SwInit ==
    /\ waiting_ = FALSE
    /\ mtx_ = {}
    /\ cv_ = {}
    /\ sw_pc = [t \in SwThreads |-> IF t = Sleeper THEN "start" ELSE "ready"]
    /\ sw_ret = [w \in Wakers |-> "none"]
    /\ wakeAfterMark = {}

\* std::unique_lock<std::mutex> lock(mtx_)
Lock(t) == mtx_ = {} /\ mtx_' = {t}

\* cv_.notify_one(): one blocked thread, if any, leaves the wait.
NotifyOne(pcs) ==
    IF cv_ = {} THEN pcs
    ELSE LET t == CHOOSE x \in cv_ : TRUE IN [pcs EXCEPT ![t] = "woken"]

\* mark(): lock
MarkLock ==
    /\ sw_pc[Sleeper] = "start"
    /\ Lock(Sleeper)
    /\ sw_pc' = [sw_pc EXCEPT ![Sleeper] = "mark_locked"]
    /\ UNCHANGED <<waiting_, cv_, sw_ret, wakeAfterMark>>
    /\ UNCHANGED exceptSw

\* mark(): waiting_ = true; unlock on return
MarkStore ==
    /\ sw_pc[Sleeper] = "mark_locked"
    /\ waiting_' = TRUE
    /\ mtx_' = {}
    /\ sw_pc' = [sw_pc EXCEPT ![Sleeper] = "marked"]
    /\ UNCHANGED <<cv_, sw_ret, wakeAfterMark>>
    /\ UNCHANGED exceptSw

\* sleep(): lock
SleepLock ==
    /\ sw_pc[Sleeper] = "marked"
    /\ Lock(Sleeper)
    /\ sw_pc' = [sw_pc EXCEPT ![Sleeper] = "sleep_locked"]
    /\ UNCHANGED <<waiting_, cv_, sw_ret, wakeAfterMark>>
    /\ UNCHANGED exceptSw

\* sleep(): waiting_ = true
SleepStore ==
    /\ sw_pc[Sleeper] = "sleep_locked"
    /\ waiting_' = TRUE
    /\ sw_pc' = [sw_pc EXCEPT ![Sleeper] = "sleep_check"]
    /\ UNCHANGED <<mtx_, cv_, sw_ret, wakeAfterMark>>
    /\ UNCHANGED exceptSw

\* sleep(): cv_.wait(lock, pred) is while (!pred()) wait(lock); the predicate is
\* evaluated with the lock held, wait releases the lock and blocks atomically.
SleepCheck ==
    /\ sw_pc[Sleeper] = "sleep_check"
    /\ mtx_' = {}
    /\ IF ~waiting_
         THEN /\ sw_pc' = [sw_pc EXCEPT ![Sleeper] = "returned"]
              /\ cv_' = cv_
         ELSE /\ sw_pc' = [sw_pc EXCEPT ![Sleeper] = "parked"]
              /\ cv_' = cv_ \cup {Sleeper}
    /\ UNCHANGED <<waiting_, sw_ret, wakeAfterMark>>
    /\ UNCHANGED exceptSw

\* A wait that takes any wakeup for the end of sleep()
SpuriousReturn ==
    /\ sw_pc[Sleeper] = "parked"
    /\ cv_' = cv_ \ {Sleeper}
    /\ sw_pc' = [sw_pc EXCEPT ![Sleeper] = "returned"]
    /\ UNCHANGED <<waiting_, mtx_, sw_ret, wakeAfterMark>>
    /\ UNCHANGED exceptSw

\* A condition variable may end a wait without a notify.
SpuriousWakeup ==
    /\ sw_pc[Sleeper] = "parked"
    /\ cv_' = cv_ \ {Sleeper}
    /\ sw_pc' = [sw_pc EXCEPT ![Sleeper] = "woken"]
    /\ UNCHANGED <<waiting_, mtx_, sw_ret, wakeAfterMark>>
    /\ UNCHANGED exceptSw

\* sleep(): wait re-acquires the lock before the predicate is evaluated again
SleepRelock ==
    /\ sw_pc[Sleeper] = "woken"
    /\ Lock(Sleeper)
    /\ sw_pc' = [sw_pc EXCEPT ![Sleeper] = "sleep_check"]
    /\ UNCHANGED <<waiting_, cv_, sw_ret, wakeAfterMark>>
    /\ UNCHANGED exceptSw

MarkReturned == sw_pc[Sleeper] \notin {"start", "mark_locked"}

\* another thread calls wake()
WakeCall(w) ==
    /\ sw_pc[w] = "ready"
    /\ sw_pc' = [sw_pc EXCEPT ![w] = "wake_called"]
    /\ wakeAfterMark' = IF MarkReturned THEN wakeAfterMark \cup {w} ELSE wakeAfterMark
    /\ UNCHANGED <<waiting_, mtx_, cv_, sw_ret>>
    /\ UNCHANGED exceptSw

\* wake(): lock
WakeLock(w) ==
    /\ sw_pc[w] = "wake_called"
    /\ Lock(w)
    /\ sw_pc' = [sw_pc EXCEPT ![w] = "wake_locked"]
    /\ UNCHANGED <<waiting_, cv_, sw_ret, wakeAfterMark>>
    /\ UNCHANGED exceptSw

\* wake(): if (!waiting_) return false; waiting_ = false; notify_one; return true
WakeBody(w) ==
    /\ sw_pc[w] = "wake_locked"
    /\ mtx_' = {}
    /\ IF ~waiting_
         THEN /\ sw_ret' = [sw_ret EXCEPT ![w] = "false"]
              /\ sw_pc' = [sw_pc EXCEPT ![w] = "done"]
              /\ UNCHANGED <<waiting_, cv_>>
         ELSE /\ waiting_' = FALSE
              /\ cv_' = IF cv_ = {} THEN cv_ ELSE cv_ \ {CHOOSE x \in cv_ : TRUE}
              /\ sw_pc' = [NotifyOne(sw_pc) EXCEPT ![w] = "done"]
              /\ sw_ret' = [sw_ret EXCEPT ![w] = "true"]
    /\ UNCHANGED wakeAfterMark
    /\ UNCHANGED exceptSw

SleeperStep ==
    MarkLock \/ MarkStore \/ SleepLock \/ SleepStore \/ SleepCheck \/ SleepRelock

WakerStep(w) == WakeCall(w) \/ WakeLock(w) \/ WakeBody(w)

SwNext ==
    \/ MarkLock \/ MarkStore \/ SleepLock \/ SleepStore \/ SleepCheck \/ SleepRelock
    \/ SpuriousWakeup
    \/ \E w \in Wakers : WakeCall(w) \/ WakeLock(w) \/ WakeBody(w)

\* ========================================================== LockFreeRingQueue
\* Width of SizeType in this instantiation (TLC's integers are 32 bits wide).
UintBits == 16
UintMax == 2^UintBits - 1

RECURSIVE BitOr(_, _)
BitOr(a, b) ==
    IF a = 0 /\ b = 0 THEN 0
    ELSE (IF a % 2 = 1 \/ b % 2 = 1 THEN 1 ELSE 0) + 2 * BitOr(a \div 2, b \div 2)

RECURSIVE BitAnd(_, _)
BitAnd(a, b) ==
    IF a = 0 \/ b = 0 THEN 0
    ELSE (IF a % 2 = 1 /\ b % 2 = 1 THEN 1 ELSE 0) + 2 * BitAnd(a \div 2, b \div 2)

Shr(a, k) == a \div (2^k)

\* reCapacity: round the requested capacity up to a power of two
reCapacity(requested) ==
    IF requested >= UintMax \div 2 THEN UintMax \div 2
    ELSE LET c0 == requested - 1
             c1 == BitOr(c0, Shr(c0, 1))
             c2 == BitOr(c1, Shr(c1, 2))
             c3 == BitOr(c2, Shr(c2, 4))
             c4 == BitOr(c3, Shr(c3, 8))
             c5 == BitOr(c4, Shr(c4, 16))
         IN  c5 + 1

\* mod: val & (capacity_ - 1), on SizeType
mod(val) == BitAnd(val % (UintMax + 1), capacity_ - 1)

\* capacity(): one slot is kept free to tell full from empty
capacity == capacity_ - 1

Garbage == 0 - 1
RawSlot == [live |-> FALSE, val |-> Garbage]
Slots == 0..(capacity_ - 1)
RqThreads == 1..(NumProducers + NumConsumers)
NoResult == [success |-> FALSE, notify |-> FALSE]
NoLocals == [op |-> "none", pre |-> 0, afterEmpty |-> FALSE, arg |-> 0, write |-> 0, writable |-> 0,
             readable |-> 0, read |-> 0, check |-> 0, t |-> Garbage]

\* Number of constructed values held in the buffer.
Stored == Cardinality({i \in Slots : buffer_[i].live})

\* The constructor, and the threads that will use the queue.
RqInit(requested, roles, calls) ==
    /\ capacity_ = reCapacity(requested)
    /\ buffer_ = [i \in 0..(reCapacity(requested) - 1) |-> RawSlot]
    /\ readable_ = 0
    /\ write_ = 0
    /\ read_ = 0
    /\ writable_ = (reCapacity(requested) - 1) % (UintMax + 1)
    /\ role = roles
    /\ rq_pc = [t \in RqThreads |-> "idle"]
    /\ loc = [t \in RqThreads |-> NoLocals]
    /\ result = [t \in RqThreads |-> NoResult]
    /\ nextVal = 1
    /\ budget = calls
    /\ pushed = <<>>
    /\ popped = <<>>
    /\ emptySeen = FALSE
    /\ hazard = {}

\* if (write == writable): the queue is full
IsFullNever(write, writable) == FALSE
IsFull(write, writable) == write = writable

\* if (read == readable): the queue is empty
IsEmptyNever(read, readable) == FALSE
IsEmpty(read, readable) == read = readable

Goto(t, label) == rq_pc' = [rq_pc EXCEPT ![t] = label]

\* The locals of a call end with it; the caller keeps its own variable t.
Returned(l) ==
    [NoLocals EXCEPT !.op = l.op, !.pre = l.pre, !.afterEmpty = l.afterEmpty, !.t = l.t]

\* ---- Push
\* Push(t): LockFreeResult result;
PushBegin(p) ==
    /\ rq_pc[p] = "idle"
    /\ role[p] \in {"producer", "both"}
    /\ nextVal <= budget
    /\ nextVal' = nextVal + 1
    /\ loc' = [loc EXCEPT ![p] = [NoLocals EXCEPT !.op = "push", !.pre = Stored,
                                                  !.arg = nextVal, !.t = loc[p].t]]
    /\ result' = [result EXCEPT ![p] = NoResult]
    /\ Goto(p, "push_load_write")
    /\ UNCHANGED <<capacity_, buffer_, write_, writable_, read_, readable_, role,
                   budget, pushed, popped, emptySeen, hazard>>
    /\ UNCHANGED exceptRq

\* write = relaxed(write_)
PushLoadWrite(p) ==
    /\ rq_pc[p] = "push_load_write"
    /\ loc' = [loc EXCEPT ![p].write = write_]
    /\ Goto(p, "push_load_writable")
    /\ UNCHANGED <<capacity_, buffer_, write_, writable_, read_, readable_, role,
                   result, nextVal, budget, pushed, popped, emptySeen, hazard>>
    /\ UNCHANGED exceptRq

\* (a Push that starts over when it finds the queue full)
PushLoadWritableRetries(p) ==
    /\ rq_pc[p] = "push_load_writable"
    /\ IF IsFull(loc[p].write, writable_)
         THEN Goto(p, "push_load_write") /\ loc' = loc
         ELSE Goto(p, "push_claim") /\ loc' = [loc EXCEPT ![p].writable = writable_]
    /\ UNCHANGED <<capacity_, buffer_, write_, writable_, read_, readable_, role,
                   result, nextVal, budget, pushed, popped, emptySeen, hazard>>
    /\ UNCHANGED exceptRq

\* writable = consume(writable_); if (write == writable) return result;
PushLoadWritable(p) ==
    /\ rq_pc[p] = "push_load_writable"
    /\ IF IsFull(loc[p].write, writable_)
         THEN /\ Goto(p, "idle")
              /\ loc' = [loc EXCEPT ![p] = [Returned(loc[p]) EXCEPT !.afterEmpty = emptySeen]]
              /\ emptySeen' = FALSE
         ELSE /\ Goto(p, "push_claim")
              /\ loc' = [loc EXCEPT ![p].writable = writable_]
              /\ emptySeen' = emptySeen
    /\ UNCHANGED <<capacity_, buffer_, write_, writable_, read_, readable_, role,
                   result, nextVal, budget, pushed, popped, hazard>>
    /\ UNCHANGED exceptRq

\* while (!write_.compare_exchange_weak(write, mod(write + 1)))
PushClaim(p) ==
    /\ rq_pc[p] = "push_claim"
    /\ IF write_ = loc[p].write
         THEN /\ write_' = mod(loc[p].write + 1)
              /\ Goto(p, "push_construct")
              /\ loc' = loc
         ELSE /\ write_' = write_
              /\ Goto(p, "push_load_write")
              /\ loc' = [loc EXCEPT ![p].write = write_]
    /\ UNCHANGED <<capacity_, buffer_, writable_, read_, readable_, role,
                   result, nextVal, budget, pushed, popped, emptySeen, hazard>>
    /\ UNCHANGED exceptRq

\* new(buffer_ + write) T(std::forward<U>(t))
PushConstruct(p) ==
    /\ rq_pc[p] = "push_construct"
    /\ buffer_' = [buffer_ EXCEPT ![loc[p].write] = [live |-> TRUE, val |-> loc[p].arg]]
    /\ hazard' = IF buffer_[loc[p].write].live THEN hazard \cup {"overwrite"} ELSE hazard
    /\ Goto(p, "push_load_readable")
    /\ UNCHANGED <<capacity_, write_, writable_, read_, readable_, role,
                   loc, result, nextVal, budget, pushed, popped, emptySeen>>
    /\ UNCHANGED exceptRq

\* readable = relaxed(readable_)
PushLoadReadable(p) ==
    /\ rq_pc[p] = "push_load_readable"
    /\ loc' = [loc EXCEPT ![p].readable = readable_]
    /\ Goto(p, "push_publish")
    /\ UNCHANGED <<capacity_, buffer_, write_, writable_, read_, readable_, role,
                   result, nextVal, budget, pushed, popped, emptySeen, hazard>>
    /\ UNCHANGED exceptRq

\* The notify bit of Push, from its locals.
PushNotifyNoStep(l) == l.write = l.writable
PushNotify(l) == l.write = mod(l.writable + 1)

\* while (!readable_.compare_exchange_weak(write, mod(readable + 1)));
\* a failed exchange stores the value found into its first argument, write.
\* Then result.notify = (write == mod(writable + 1)); result.success = true.
PushPublish(p) ==
    /\ rq_pc[p] = "push_publish"
    /\ IF readable_ = loc[p].write
         THEN /\ readable_' = mod(loc[p].readable + 1)
              /\ result' = [result EXCEPT ![p] =
                               [success |-> TRUE, notify |-> PushNotify(loc[p])]]
              /\ pushed' = Append(pushed, loc[p].arg)
              /\ Goto(p, "idle")
              /\ loc' = [loc EXCEPT ![p] = [Returned(loc[p]) EXCEPT !.afterEmpty = emptySeen]]
              /\ emptySeen' = FALSE
         ELSE /\ readable_' = readable_
              /\ loc' = [loc EXCEPT ![p].write = readable_]
              /\ Goto(p, "push_load_readable")
              /\ UNCHANGED <<result, pushed, emptySeen>>
    /\ UNCHANGED <<capacity_, buffer_, write_, writable_, read_, role,
                   nextVal, budget, popped, hazard>>
    /\ UNCHANGED exceptRq

\* ---- Pop
\* Pop(t): LockFreeResult result;
PopBegin(c) ==
    /\ rq_pc[c] = "idle"
    /\ role[c] \in {"consumer", "both"}
    /\ loc' = [loc EXCEPT ![c] = [NoLocals EXCEPT !.op = "pop", !.pre = Stored,
                                                  !.t = loc[c].t]]
    /\ result' = [result EXCEPT ![c] = NoResult]
    /\ Goto(c, "pop_load_read")
    /\ UNCHANGED <<capacity_, buffer_, write_, writable_, read_, readable_, role,
                   nextVal, budget, pushed, popped, emptySeen, hazard>>
    /\ UNCHANGED exceptRq

\* read = relaxed(read_)
PopLoadRead(c) ==
    /\ rq_pc[c] = "pop_load_read"
    /\ loc' = [loc EXCEPT ![c].read = read_]
    /\ Goto(c, "pop_load_readable")
    /\ UNCHANGED <<capacity_, buffer_, write_, writable_, read_, readable_, role,
                   result, nextVal, budget, pushed, popped, emptySeen, hazard>>
    /\ UNCHANGED exceptRq

\* readable = consume(readable_); if (read == readable) return result;
PopLoadReadable(c) ==
    /\ rq_pc[c] = "pop_load_readable"
    /\ IF IsEmpty(loc[c].read, readable_)
         THEN /\ Goto(c, "idle")
              /\ loc' = [loc EXCEPT ![c] = Returned(loc[c])]
              /\ emptySeen' = TRUE
         ELSE /\ Goto(c, "pop_claim")
              /\ loc' = [loc EXCEPT ![c].readable = readable_]
              /\ emptySeen' = emptySeen
    /\ UNCHANGED <<capacity_, buffer_, write_, writable_, read_, readable_, role,
                   result, nextVal, budget, pushed, popped, hazard>>
    /\ UNCHANGED exceptRq

\* while (!read_.compare_exchange_weak(read, mod(read + 1)))
PopClaim(c) ==
    /\ rq_pc[c] = "pop_claim"
    /\ IF read_ = loc[c].read
         THEN /\ read_' = mod(loc[c].read + 1)
              /\ Goto(c, "pop_move")
              /\ loc' = loc
         ELSE /\ read_' = read_
              /\ Goto(c, "pop_load_read")
              /\ loc' = [loc EXCEPT ![c].read = read_]
    /\ UNCHANGED <<capacity_, buffer_, write_, writable_, readable_, role,
                   result, nextVal, budget, pushed, popped, emptySeen, hazard>>
    /\ UNCHANGED exceptRq

\* What reading a slot yields: its value, or, when no value is constructed
\* there, whatever the memory holds (the bytes of a value moved out earlier,
\* or anything else).
SlotRead(i) ==
    IF buffer_[i].live THEN {buffer_[i].val} ELSE {buffer_[i].val, Garbage}

\* t = std::move(buffer_[read]); buffer_[read].~T();
\* uint_t check = mod(read + capacity_ - 1);
PopMove(c) ==
    /\ rq_pc[c] = "pop_move"
    /\ \E v \in SlotRead(loc[c].read) :
         /\ loc' = [loc EXCEPT ![c].t = v,
                               ![c].check = mod(loc[c].read + capacity_ - 1)]
         /\ popped' = Append(popped, v)
    /\ buffer_' = [buffer_ EXCEPT ![loc[c].read].live = FALSE]
    /\ hazard' = IF buffer_[loc[c].read].live THEN hazard ELSE hazard \cup {"rawread"}
    /\ Goto(c, "pop_reclaim")
    /\ UNCHANGED <<capacity_, write_, writable_, read_, readable_, role,
                   result, nextVal, budget, pushed, emptySeen>>
    /\ UNCHANGED exceptRq

\* while (!writable_.compare_exchange_weak(check, read));
\* a failed exchange stores the value found into its first argument, check.
PopReclaim(c) ==
    /\ rq_pc[c] = "pop_reclaim"
    /\ IF writable_ = loc[c].check
         THEN /\ writable_' = loc[c].read
              /\ Goto(c, "pop_notify")
              /\ loc' = loc
         ELSE /\ writable_' = writable_
              /\ loc' = [loc EXCEPT ![c].check = writable_]
              /\ Goto(c, "pop_reclaim")
    /\ UNCHANGED <<capacity_, buffer_, write_, read_, readable_, role,
                   result, nextVal, budget, pushed, popped, emptySeen, hazard>>
    /\ UNCHANGED exceptRq

\* The notify bit of Pop: read == mod(readable_ + 1), readable_ loaded now.
PopNotifyBitNoStep(l) == l.read = readable_
PopNotifyBit(l) == l.read = mod(readable_ + 1)

\* result.notify = (read == mod(readable_ + 1)); result.success = true;
PopNotify(c) ==
    /\ rq_pc[c] = "pop_notify"
    /\ result' = [result EXCEPT ![c] =
                     [success |-> TRUE, notify |-> PopNotifyBit(loc[c])]]
    /\ Goto(c, "idle")
    /\ loc' = [loc EXCEPT ![c] = Returned(loc[c])]
    /\ UNCHANGED <<capacity_, buffer_, write_, writable_, read_, readable_, role,
                   nextVal, budget, pushed, popped, emptySeen, hazard>>
    /\ UNCHANGED exceptRq

\* compare_exchange_weak may fail although the value found is the expected
\* one; the expected value is then rewritten with itself and the loop retries.
CasSpuriousFail(t) ==
    /\ \/ rq_pc[t] = "push_claim" /\ write_ = loc[t].write /\ Goto(t, "push_load_write")
       \/ rq_pc[t] = "push_publish" /\ readable_ = loc[t].write
             /\ Goto(t, "push_load_readable")
       \/ rq_pc[t] = "pop_claim" /\ read_ = loc[t].read /\ Goto(t, "pop_load_read")
       \/ rq_pc[t] = "pop_reclaim" /\ writable_ = loc[t].check /\ Goto(t, "pop_reclaim")
    /\ UNCHANGED <<capacity_, buffer_, write_, writable_, read_, readable_, role,
                   loc, result, nextVal, budget, pushed, popped, emptySeen, hazard>>
    /\ UNCHANGED exceptRq

PushStep(p) ==
    \/ PushBegin(p) \/ PushLoadWrite(p) \/ PushLoadWritable(p) \/ PushClaim(p)
    \/ PushConstruct(p) \/ PushLoadReadable(p) \/ PushPublish(p)

PopStep(c) ==
    \/ PopBegin(c) \/ PopLoadRead(c) \/ PopLoadReadable(c) \/ PopClaim(c)
    \/ PopMove(c) \/ PopReclaim(c) \/ PopNotify(c)

RqNext ==
    \E t \in RqThreads :
        \/ PushBegin(t) \/ PushLoadWrite(t) \/ PushLoadWritable(t) \/ PushClaim(t)
        \/ PushConstruct(t) \/ PushLoadReadable(t) \/ PushPublish(t)
        \/ PopBegin(t) \/ PopLoadRead(t) \/ PopLoadReadable(t) \/ PopClaim(t)
        \/ PopMove(t) \/ PopReclaim(t) \/ PopNotify(t)
        \/ CasSpuriousFail(t)

\* ------------------------------------------------- ~LockFreeRingQueue
NoDtor == [run |-> FALSE, destroyed |-> {}, raw |-> {}, left |-> {}]
RdIdle == rq_dtor = NoDtor
\* The slots the destructor's loop visits: for (; read < readable; ++read).
DtorVisits(read, readable) == {i \in Slots : read <= i /\ i < readable}
\* ~LockFreeRingQueue, once every Push and Pop call has returned: buffer_[read].~T()
\* for every slot visited, then free(buffer_); no thread uses the queue afterwards.
RqDestroy ==
    /\ ~rq_dtor.run
    /\ \A t \in RqThreads : rq_pc[t] = "idle"
    /\ LET visits == DtorVisits(read_, readable_)
       IN  /\ rq_dtor' = [run |-> TRUE,
                          destroyed |-> {i \in visits : buffer_[i].live},
                          raw |-> {i \in visits : ~buffer_[i].live},
                          left |-> {i \in Slots \ visits : buffer_[i].live}]
           /\ buffer_' = [i \in Slots |-> IF i \in visits THEN RawSlot ELSE buffer_[i]]
    /\ rq_pc' = [t \in RqThreads |-> "destroyed"]
    /\ UNCHANGED <<capacity_, write_, writable_, read_, readable_, role, loc,
                   result, nextVal, budget, pushed, popped, emptySeen, hazard>>
    /\ UNCHANGED exceptDestroy
RdNext ==
    \/ RqNext
    \/ RqDestroy

\* ------------------------------------------- reCapacity on std::size_t
\* The default SizeType is std::size_t, 64 bits wide.  A value of that type is
\* the set of the positions of its one bits, so that the shifts and the
\* carries of reCapacity are computed at full width.
SizeBits == 64
BitPositions == 0..(SizeBits - 1)
\* std::numeric_limits<uint_t>::max()
WordMax == BitPositions
LowestOf(bits) == CHOOSE b \in bits : \A x \in bits : b <= x
HighestOf(bits) == CHOOSE b \in bits : \A x \in bits : b >= x
\* w >> k
WordShr(w, k) == {b - k : b \in {x \in w : x >= k}}
\* a | b and a & b
WordOr(a, b) == a \cup b
WordAnd(a, b) == a \cap b
\* --w and w + 1, modulo 2^SizeBits
WordDec(w) ==
    IF w = {} THEN WordMax
    ELSE (w \ {LowestOf(w)}) \cup {b \in BitPositions : b < LowestOf(w)}
WordInc(w) ==
    IF w = WordMax THEN {}
    ELSE LET l == LowestOf(BitPositions \ w) IN {b \in w : b > l} \cup {l}
\* a >= b
WordGeq(a, b) ==
    a = b \/ HighestOf((a \ b) \cup (b \ a)) \in a

\* The shift applied at each `capacity |= capacity >> k` and the line after it.
RcShift == [or1 |-> 1, or2 |-> 2, or4 |-> 4, or8 |-> 8, or16 |-> 16]
RcAfter == [or1 |-> "or2", or2 |-> "or4", or4 |-> "or8", or8 |-> "or16", or16 |-> "inc"]

\* if (capacity == 0) throw; if (capacity >= max / 2) return max / 2; --capacity;
RcCheck ==
    /\ rc_pc = "start"
    /\ IF rc_requested = {}
         THEN rc_pc' = "thrown" /\ rc_capacity' = rc_capacity
         ELSE IF WordGeq(rc_requested, WordShr(WordMax, 1))
           THEN rc_pc' = "done" /\ rc_capacity' = WordShr(WordMax, 1)
           ELSE rc_pc' = "or1" /\ rc_capacity' = WordDec(rc_requested)
    /\ UNCHANGED rc_requested
    /\ UNCHANGED exceptRc

\* capacity |= capacity >> 1; ... capacity |= capacity >> 16;
RcSmear ==
    /\ rc_pc \in DOMAIN RcShift
    /\ rc_capacity' = WordOr(rc_capacity, WordShr(rc_capacity, RcShift[rc_pc]))
    /\ rc_pc' = RcAfter[rc_pc]
    /\ UNCHANGED rc_requested
    /\ UNCHANGED exceptRc

\* return capacity + 1;
RcReturn ==
    /\ rc_pc = "inc"
    /\ rc_capacity' = WordInc(rc_capacity)
    /\ rc_pc' = "done"
    /\ UNCHANGED rc_requested
    /\ UNCHANGED exceptRc

RcNext == RcCheck \/ RcSmear \/ RcReturn

\* The capacities handed to the constructor: zero, the largest value, and for
\* every bit position the power of two there plus any of the lowest bits.
RcRequests ==
    {{}, WordMax} \cup
    {{a} \cup low : a \in BitPositions, low \in SUBSET (0..(MaxLowBits - 1))}
RcInit(requests) ==
    /\ rc_requested \in requests
    /\ rc_capacity = {}
    /\ rc_pc = "start"
RcIdle == RcInit({{}})

\* ========================================================= TSQueue and SList
Null == 0
Elements == 1..NumElements
Queues == 1..NumQueues
Lists == 1..NumLists
TsThreads == 1..NumTsThreads
\* head_ = tail_ = new TSQueueHook: the node that holds no element
Sentinel(q) == NumElements + q
Nodes == 1..(NumElements + NumQueues)
NoHook == [prev |-> Null, next |-> Null, check_ |-> Null]
EmptyList == [head_ |-> Null, tail_ |-> Null, count_ |-> 0]
\* A call of a queue thread: the element it pushes or the pointer pop handed
\* back, and what the thread has pushed (put) and was handed (got) so far.
NoCall == [op |-> "none", q |-> Null, e |-> Null, ptr |-> Null, put |-> <<>>, got |-> <<>>]

\* TSQueue(), SList(), RefObject(): check_ = this is the queue's number.  The
\* threads of `threads` will call push and pop; every element starts with the
\* references of its outside owners, one of the counts of `counts`.
TsStart(threads, counts) ==
    /\ hook = [x \in Nodes |-> NoHook]
    /\ queue = [q \in Queues |-> [head_ |-> Sentinel(q), tail_ |-> Sentinel(q), count_ |-> 0]]
    /\ slist = [h \in Lists |-> EmptyList]
    /\ refCount \in counts
    /\ destroyed = {}
    /\ owners = refCount
    /\ ts_lock = [q \in Queues |-> Null]
    /\ ts_pc = [t \in TsThreads |-> IF t \in threads THEN "idle" ELSE "off"]
    /\ ts_call = [t \in TsThreads |-> NoCall]
    /\ ts_abort = FALSE
TsInit == TsStart({}, {[e \in Elements |-> 0]})

\* The nodes from `from` along next.
RECURSIVE Chain(_, _, _)
Chain(h, from, fuel) ==
    IF from = Null \/ fuel = 0 THEN <<>>
    ELSE <<from>> \o Chain(h, h[from].next, fuel - 1)
\* The elements of a queue, read from its sentinel, and of a list handle.
QueueSeq(q) == Chain(hook, hook[queue[q].head_].next, NumElements + NumQueues)
ListSeq(l) == Chain(hook, slist[l].head_, NumElements + NumQueues)

\* An element no container links: the precondition of push(T*).
Unlinked(e) ==
    /\ hook[e].prev = Null /\ hook[e].next = Null
    /\ \A l \in Lists : slist[l].head_ # e

\* An assert has failed (or a null pointer was followed): the program aborts.
Abort ==
    /\ ts_abort' = TRUE
    /\ UNCHANGED <<hook, queue, slist, refCount, destroyed>>

\* p->next = v and p->prev = v, for a p that is not null
SetNext(h, p, v) == IF p = Null THEN h ELSE [h EXCEPT ![p].next = v]
SetPrev(h, p, v) == IF p = Null THEN h ELSE [h EXCEPT ![p].prev = v]

\* RefObject::AddRef and RefObject::DecRef: a count of 0 is left alone, the
\* decrement that reaches 0 deletes the object.
AddRef(e) == refCount' = [refCount EXCEPT ![e] = @ + 1]
AfterDecRef(r, e) ==
    [refCount |-> [r.refCount EXCEPT ![e] = IF @ = 0 THEN 0 ELSE @ - 1],
     destroyed |-> IF r.refCount[e] = 1 THEN r.destroyed \cup {e} ELSE r.destroyed]
DecRef(e) ==
    LET r == AfterDecRef([refCount |-> refCount, destroyed |-> destroyed], e)
    IN  refCount' = r.refCount /\ destroyed' = r.destroyed

\* An owner outside the containers takes a reference (SharedWrapper(ptr)) ...
Acquire(e) ==
    /\ ~ts_abort
    /\ e \notin destroyed
    /\ owners[e] < MaxOwners
    /\ owners' = [owners EXCEPT ![e] = @ + 1]
    /\ AddRef(e)
    /\ UNCHANGED <<hook, queue, slist, destroyed, ts_lock, ts_pc, ts_call, ts_abort>>
    /\ UNCHANGED exceptTs

\* ... and gives it up (the shared_ptr's deleter calls DecRef).
Release(e) ==
    /\ ~ts_abort
    /\ owners[e] > 0
    /\ owners' = [owners EXCEPT ![e] = @ - 1]
    /\ DecRef(e)
    /\ UNCHANGED <<hook, queue, slist, ts_lock, ts_pc, ts_call, ts_abort>>
    /\ UNCHANGED exceptTs

\* ---- push(T* element)
\* assert(hook->next == nullptr); assert(hook->prev == nullptr); and the
\* asserts of tail_->link(hook)
PushAsserts(q, e) ==
    /\ hook[e].next = Null /\ hook[e].prev = Null
    /\ hook[queue[q].tail_].next = Null
\* (a push that links the element behind the sentinel, in front of the others)
pushAtHead(q, e) ==
    LET head == queue[q].head_
        first == hook[head].next
        h1 == [hook EXCEPT ![head].next = e,
                           ![e] = [prev |-> head, next |-> first, check_ |-> q]]
    IN  /\ hook' = SetPrev(h1, first, e)
        /\ queue' = [queue EXCEPT ![q].tail_ = IF first = Null THEN e ELSE @,
                                  ![q].count_ = @ + 1]
        /\ AddRef(e)
\* tail_->link(hook); tail_ = hook; hook->next = nullptr; hook->check_ = check_;
\* ++count_; AddRef(element);
pushWithoutLock(q, e) ==
    /\ hook' = [hook EXCEPT ![queue[q].tail_].next = e,
                            ![e] = [prev |-> queue[q].tail_, next |-> Null, check_ |-> q]]
    /\ queue' = [queue EXCEPT ![q].tail_ = e, ![q].count_ = @ + 1]
    /\ AddRef(e)

\* ---- pop()
\* if (head_ == tail_) return nullptr;
PopSeesEmpty(q) == queue[q].head_ = queue[q].tail_
\* The unlinking of pop(): the head element leaves the chain, its links and
\* its tag are cleared, --count_, DecRef(ptr).
PopPtr(q) == hook[queue[q].head_].next
\* (a pop that hands the head element out and leaves it linked)
popKeepsElement(q) ==
    /\ hook' = hook
    /\ queue' = [queue EXCEPT ![q].count_ = @ - 1]
    /\ DecRef(PopPtr(q))
popLocked(q) ==
    LET head == queue[q].head_
        ptr == PopPtr(q)
        succ == hook[ptr].next
        h1 == [hook EXCEPT ![head].next = succ]
        h2 == SetPrev(h1, succ, head)
    IN  /\ hook' = [h2 EXCEPT ![ptr] = NoHook]
        /\ queue' = [queue EXCEPT ![q].tail_ = IF ptr = @ THEN head ELSE @,
                                  ![q].count_ = @ - 1]
        /\ DecRef(ptr)

\* A handle that holds nothing receives the SList a call returns.
Fresh(h) == slist[h] = EmptyList
InQueue(q, e) == \E k \in 1..Len(QueueSeq(q)) : QueueSeq(q)[k] = e

\* push(element), lock taken and released inside
TsPush(q, e) ==
    /\ ~ts_abort
    /\ e \notin destroyed /\ Unlinked(e)
    /\ IF PushAsserts(q, e)
         THEN pushWithoutLock(q, e) /\ UNCHANGED <<slist, destroyed, ts_abort>>
         ELSE Abort
    /\ UNCHANGED <<owners, ts_lock, ts_pc, ts_call>>
    /\ UNCHANGED exceptTs

\* pop(), lock taken and released inside
TsPop(q) ==
    /\ ~ts_abort
    /\ IF PopSeesEmpty(q)
         THEN UNCHANGED <<hook, queue, refCount, destroyed>>
         ELSE popLocked(q)
    /\ UNCHANGED <<slist, owners, ts_lock, ts_pc, ts_call, ts_abort>>
    /\ UNCHANGED exceptTs

\* ---- ~TSQueue()
\* A queue that has not been destroyed
Alive(q) == queue[q].head_ # Null
\* while (head_ != tail_) { prev = tail_->prev; tail_ = prev; }: whether the
\* walk from tail_ along prev arrives at head_
RECURSIVE DtorWalk(_, _, _, _)
DtorWalk(h, t, head, fuel) ==
    IF t = head THEN TRUE
    ELSE IF t = Null \/ fuel = 0 THEN FALSE
    ELSE DtorWalk(h, h[t].prev, head, fuel - 1)
\* ~TSQueue(), lock taken inside: the walk moves tail_ back to head_ and
\* stores to no node (the DecRef of the node passed is commented out), then
\* delete head_; head_ = tail_ = 0.
TsDestroy(q) ==
    /\ ~ts_abort
    /\ Alive(q)
    /\ IF DtorWalk(hook, queue[q].tail_, queue[q].head_, NumElements + NumQueues)
         THEN /\ queue' = [queue EXCEPT ![q].head_ = Null, ![q].tail_ = Null]
              /\ UNCHANGED <<hook, slist, refCount, destroyed, ts_abort>>
         ELSE Abort /\ UNCHANGED <<slist, queue>>
    /\ UNCHANGED <<owners, ts_lock, ts_pc, ts_call>>
    /\ UNCHANGED exceptTs

\* ---- push(SList<T> && elements)
\* if (elements.empty()) return; the asserts of pushWithoutLock and of link;
\* count_ += elements.size(); tail_->link(listHead); tail_ = elements.tail_;
\* elements.stealed().  LIBGO_DEBUG is not defined: no tag is written.
TsPushList(q, h) ==
    /\ ~ts_abort
    /\ IF slist[h].head_ = Null
         THEN UNCHANGED <<hook, queue, slist, refCount, destroyed, ts_abort>>
         ELSE IF /\ hook[slist[h].head_].prev = Null
                 /\ hook[slist[h].tail_].next = Null
                 /\ hook[queue[q].tail_].next = Null
           THEN /\ hook' = [hook EXCEPT ![queue[q].tail_].next = slist[h].head_,
                                        ![slist[h].head_].prev = queue[q].tail_]
                /\ queue' = [queue EXCEPT ![q].tail_ = slist[h].tail_,
                                          ![q].count_ = @ + slist[h].count_]
                /\ slist' = [slist EXCEPT ![h] = EmptyList]
                /\ UNCHANGED <<refCount, destroyed, ts_abort>>
           ELSE Abort
    /\ UNCHANGED <<owners, ts_lock, ts_pc, ts_call>>
    /\ UNCHANGED exceptTs

\* (a walk that goes as far but reports one node whatever it passed)
RECURSIVE WalkNextUncounted(_, _, _, _)
WalkNextUncounted(h, last, c, n) ==
    IF c < n /\ h[last].next # Null THEN WalkNextUncounted(h, h[last].next, c + 1, n)
    ELSE [node |-> last, c |-> 1]
\* for (; c < n && last->next; ++c) last = last->next;
RECURSIVE WalkNext(_, _, _, _)
WalkNext(h, last, c, n) ==
    IF c < n /\ h[last].next # Null THEN WalkNext(h, h[last].next, c + 1, n)
    ELSE [node |-> last, c |-> c]

\* for (; c < n && first->prev != head_; ++c) { assert(first->prev != nullptr);
\* first = first->prev; }  A failed assert is reported as node = Null.
RECURSIVE WalkPrev(_, _, _, _, _)
WalkPrev(h, first, c, n, head) ==
    IF c < n /\ h[first].prev # head
    THEN IF h[first].prev = Null THEN [node |-> Null, c |-> c]
         ELSE WalkPrev(h, h[first].prev, c + 1, n, head)
    ELSE [node |-> first, c |-> c]

\* ---- pop_front(n): first = head_->next, last = the n-th node or the last one
TsPopFront(q, n, h) ==
    /\ ~ts_abort /\ Fresh(h)
    /\ IF PopSeesEmpty(q)
         THEN UNCHANGED <<hook, queue, slist>>
         ELSE LET head == queue[q].head_
                  first == hook[head].next
                  w == WalkNext(hook, first, 1, n)
                  succ == hook[w.node].next
                  h1 == SetPrev([hook EXCEPT ![head].next = succ], succ, head)
                  h2 == [h1 EXCEPT ![first].prev = Null]
              IN  /\ hook' = [h2 EXCEPT ![w.node].next = Null]
                  /\ queue' = [queue EXCEPT ![q].tail_ = IF w.node = @ THEN head ELSE @,
                                            ![q].count_ = @ - w.c]
                  /\ slist' = [slist EXCEPT ![h] =
                                  [head_ |-> first, tail_ |-> w.node, count_ |-> w.c]]
    /\ UNCHANGED <<refCount, destroyed, owners, ts_lock, ts_pc, ts_call, ts_abort>>
    /\ UNCHANGED exceptTs

\* ---- pop_back(n): last = tail_, first = the n-th node from the end or the
\* first one; tail_ = first->prev; first->prev = tail_->next = nullptr
TsPopBack(q, n, h) ==
    /\ ~ts_abort /\ Fresh(h)
    /\ IF PopSeesEmpty(q)
         THEN UNCHANGED <<hook, queue, slist, refCount, destroyed, ts_abort>>
         ELSE LET last == queue[q].tail_
                  w == WalkPrev(hook, last, 1, n, queue[q].head_)
                  newTail == hook[w.node].prev
                  h1 == [hook EXCEPT ![w.node].prev = Null]
              IN  IF w.node = Null \/ newTail = Null THEN Abort
                  ELSE /\ hook' = [h1 EXCEPT ![newTail].next = Null]
                       /\ queue' = [queue EXCEPT ![q].tail_ = newTail,
                                                 ![q].count_ = @ - w.c]
                       /\ slist' = [slist EXCEPT ![h] =
                                       [head_ |-> w.node, tail_ |-> last, count_ |-> w.c]]
                       /\ UNCHANGED <<refCount, destroyed, ts_abort>>
    /\ UNCHANGED <<owners, ts_lock, ts_pc, ts_call>>
    /\ UNCHANGED exceptTs

\* ---- pop_all(): the whole chain, with c = count_
TsPopAll(q, h) ==
    /\ ~ts_abort /\ Fresh(h)
    /\ IF PopSeesEmpty(q)
         THEN UNCHANGED <<hook, queue, slist>>
         ELSE LET head == queue[q].head_
                  first == hook[head].next
                  last == queue[q].tail_
                  h1 == [hook EXCEPT ![head].next = Null]
                  h2 == [h1 EXCEPT ![last].next = Null]
              IN  /\ hook' = [h2 EXCEPT ![first].prev = Null]
                  /\ queue' = [queue EXCEPT ![q].tail_ = head, ![q].count_ = 0]
                  /\ slist' = [slist EXCEPT ![h] =
                                  [head_ |-> first, tail_ |-> last, count_ |-> queue[q].count_]]
    /\ UNCHANGED <<refCount, destroyed, owners, ts_lock, ts_pc, ts_call, ts_abort>>
    /\ UNCHANGED exceptTs

\* ---- erase(hook, check)
\* if (check && hook->check_ != check_) return false;
TagMismatch(q, e, check) == check /\ hook[e].check_ # q
\* assert(hook->prev != nullptr); assert(hook == tail_ || hook->next != nullptr);
\* and, after the unlinking, assert(count_ > 0)
EraseAsserts(q, e) ==
    /\ hook[e].prev # Null
    /\ e = queue[q].tail_ \/ hook[e].next # Null
    /\ queue[q].count_ # 0
\* What erase returns
EraseReturns(q, e, check) == ~TagMismatch(q, e, check)
\* Every count_ is the length of its chain.  An erase that unlinks a node of
\* another container leaves two counts off by one, and repeating it lets them
\* drift without limit: such an erase is made only while every count is right.
Consistent ==
    /\ \A q \in Queues : queue[q].count_ = Len(QueueSeq(q))
    /\ \A l \in Lists : slist[l].count_ = Len(ListSeq(l))
\* The caller passes a live element, and with check = false one of this queue.
TsErase(q, e, check) ==
    /\ ~ts_abort
    /\ e \notin destroyed
    /\ check \/ InQueue(q, e)
    /\ InQueue(q, e) \/ ~EraseReturns(q, e, check) \/ Consistent
    /\ IF ~EraseReturns(q, e, check)
         THEN UNCHANGED <<hook, queue, refCount, destroyed, ts_abort>>
         ELSE IF EraseAsserts(q, e)
           THEN LET h1 == SetNext(hook, hook[e].prev, hook[e].next)
                    h2 == SetPrev(h1, hook[e].next, hook[e].prev)
                IN  /\ hook' = [h2 EXCEPT ![e] = NoHook]
                    /\ queue' = [queue EXCEPT
                         ![q].tail_ = IF hook[e].next = Null /\ e = @
                                      THEN hook[e].prev ELSE @,
                         ![q].count_ = @ - 1]
                    /\ DecRef(e)
                    /\ UNCHANGED ts_abort
           ELSE Abort
    /\ UNCHANGED <<slist, owners, ts_lock, ts_pc, ts_call>>
    /\ UNCHANGED exceptTs

\* ---- SList::cut(n)
\* for (std::size_t i = 1; i < n; ++i) pos = (T*)pos->next;
\* (a walk that stays on the first node)
StepNowhere(h, pos, k) == pos
RECURSIVE StepNext(_, _, _)
StepNext(h, pos, k) ==
    IF k = 0 \/ pos = Null THEN pos ELSE StepNext(h, h[pos].next, k - 1)
\* The result is constructed in the handle o.
ListCut(l, n, o) ==
    /\ ~ts_abort /\ Fresh(o) /\ o # l
    /\ IF slist[l].head_ = Null \/ (n < slist[l].count_ /\ n = 0)
         THEN UNCHANGED <<hook, slist, ts_abort>>
         ELSE IF n >= slist[l].count_
           THEN /\ slist' = [slist EXCEPT ![o] = slist[l], ![l] = EmptyList]
                /\ UNCHANGED <<hook, ts_abort>>
           ELSE LET pos == StepNext(hook, slist[l].head_, n - 1)
                    head == IF pos = Null THEN Null ELSE hook[pos].next
                IN  IF head = Null \/ hook[head].prev # pos
                      THEN ts_abort' = TRUE /\ UNCHANGED <<hook, slist>>
                      ELSE /\ slist' = [slist EXCEPT
                                  ![o] = [head_ |-> slist[l].head_, tail_ |-> pos, count_ |-> n],
                                  ![l] = [@ EXCEPT !.head_ = head, !.count_ = @ - n]]
                           /\ hook' = [hook EXCEPT ![pos].next = Null, ![head].prev = Null]
                           /\ UNCHANGED ts_abort
    /\ UNCHANGED <<queue, refCount, destroyed, owners, ts_lock, ts_pc, ts_call>>
    /\ UNCHANGED exceptTs

\* (an erase that forgets the container's reference)
EraseKeepsRef(st, ptr) ==
    LET h1 == SetNext(st.hook, st.hook[ptr].prev, st.hook[ptr].next)
        h2 == SetPrev(h1, st.hook[ptr].next, st.hook[ptr].prev)
    IN  [hook |-> [h2 EXCEPT ![ptr].prev = Null, ![ptr].next = Null],
         refCount |-> st.refCount, destroyed |-> st.destroyed]
\* ---- SList::clear(): erase(it) for every node, then stealed()
\* erase(ptr) relinks the neighbours, clears ptr's links (not its tag) and
\* calls DecRef(ptr).
EraseFromList(st, ptr) ==
    LET h1 == SetNext(st.hook, st.hook[ptr].prev, st.hook[ptr].next)
        h2 == SetPrev(h1, st.hook[ptr].next, st.hook[ptr].prev)
        r == AfterDecRef(st, ptr)
    IN  [hook |-> [h2 EXCEPT ![ptr].prev = Null, ![ptr].next = Null],
         refCount |-> r.refCount, destroyed |-> r.destroyed]
RECURSIVE ClearFrom(_, _, _)
ClearFrom(st, it, fuel) ==
    IF it = Null \/ fuel = 0 THEN st
    ELSE ClearFrom(EraseFromList(st, it), st.hook[it].next, fuel - 1)
ListClear(l) ==
    /\ ~ts_abort
    /\ slist[l].head_ # Null
    /\ LET st == ClearFrom([hook |-> hook, refCount |-> refCount, destroyed |-> destroyed],
                           slist[l].head_, NumElements + NumQueues)
       IN  hook' = st.hook /\ refCount' = st.refCount /\ destroyed' = st.destroyed
    /\ slist' = [slist EXCEPT ![l] = EmptyList]
    /\ UNCHANGED <<queue, owners, ts_lock, ts_pc, ts_call, ts_abort>>
    /\ UNCHANGED exceptTs

\* ---- push and pop called by several threads on the first queue, a step per
\* lock operation
\* size() and empty()
size(q) == queue[q].count_
empty(q) == queue[q].count_ = 0
\* An element is pushed once, by one thread.
NeverPushed(e) ==
    \A t \in TsThreads :
        /\ \A k \in 1..Len(ts_call[t].put) : ts_call[t].put[k] # e
        /\ ts_pc[t] = "push_locked" => ts_call[t].e # e
\* push: LockGuard lock(*lock_), LFLock::lock()
CPushLock(t, q, e) ==
    /\ ~ts_abort /\ ts_pc[t] = "idle"
    /\ e \notin destroyed /\ NeverPushed(e)
    /\ ts_lock[q] = Null
    /\ ts_lock' = [ts_lock EXCEPT ![q] = t]
    /\ ts_pc' = [ts_pc EXCEPT ![t] = "push_locked"]
    /\ ts_call' = [ts_call EXCEPT ![t].op = "push", ![t].q = q, ![t].e = e, ![t].ptr = Null]
    /\ UNCHANGED <<hook, queue, slist, refCount, destroyed, owners, ts_abort>>
    /\ UNCHANGED exceptTs
\* push: pushWithoutLock(element), then the guard unlocks
CPushBody(t) ==
    LET q == ts_call[t].q
        e == ts_call[t].e
    IN  /\ ~ts_abort /\ ts_pc[t] = "push_locked"
        /\ IF PushAsserts(q, e)
             THEN /\ pushWithoutLock(q, e)
                  /\ ts_lock' = [ts_lock EXCEPT ![q] = Null]
                  /\ ts_pc' = [ts_pc EXCEPT ![t] = "idle"]
                  /\ ts_call' = [ts_call EXCEPT ![t].e = Null, ![t].put = Append(@, e)]
                  /\ UNCHANGED <<slist, destroyed, ts_abort>>
             ELSE Abort /\ UNCHANGED <<ts_lock, ts_pc, ts_call>>
        /\ UNCHANGED owners
        /\ UNCHANGED exceptTs
\* pop: if (head_ == tail_) return nullptr, read without the lock.  While
\* another thread holds the lock it may be writing head_->next and tail_: the
\* read races with it and can come out either way.
CPopCheck(t, q) ==
    /\ ~ts_abort /\ ts_pc[t] = "idle"
    /\ \E sees \in BOOLEAN :
         /\ ts_lock[q] = Null => sees = PopSeesEmpty(q)
         /\ IF sees
              THEN /\ ts_call' = [ts_call EXCEPT ![t].op = "pop", ![t].q = q, ![t].e = Null,
                                                 ![t].ptr = Null]
                   /\ UNCHANGED ts_pc
              ELSE /\ ts_call' = [ts_call EXCEPT ![t].op = "pop", ![t].q = q, ![t].e = Null,
                                                 ![t].ptr = Null]
                   /\ ts_pc' = [ts_pc EXCEPT ![t] = "pop_wait"]
    /\ UNCHANGED <<hook, queue, slist, refCount, destroyed, owners, ts_lock, ts_abort>>
    /\ UNCHANGED exceptTs
\* pop: LockGuard lock(*lock_)
CPopLock(t) ==
    LET q == ts_call[t].q
    IN  /\ ~ts_abort /\ ts_pc[t] = "pop_wait"
        /\ ts_lock[q] = Null
        /\ ts_lock' = [ts_lock EXCEPT ![q] = t]
        /\ ts_pc' = [ts_pc EXCEPT ![t] = "pop_locked"]
        /\ UNCHANGED <<hook, queue, slist, refCount, destroyed, owners, ts_call, ts_abort>>
        /\ UNCHANGED exceptTs
\* pop: the second head_ == tail_ test, the unlinking, then the guard unlocks
CPopBody(t) ==
    LET q == ts_call[t].q
    IN  /\ ~ts_abort /\ ts_pc[t] = "pop_locked"
        /\ IF PopSeesEmpty(q)
             THEN UNCHANGED <<hook, queue, refCount, destroyed, ts_call>>
             ELSE /\ popLocked(q)
                  /\ ts_call' = [ts_call EXCEPT ![t].ptr = PopPtr(q),
                                                 ![t].got = Append(@, PopPtr(q))]
        /\ ts_lock' = [ts_lock EXCEPT ![q] = Null]
        /\ ts_pc' = [ts_pc EXCEPT ![t] = "idle"]
        /\ UNCHANGED <<slist, owners, ts_abort>>
        /\ UNCHANGED exceptTs
TsConcNext ==
    \/ \E t \in TsThreads, e \in Elements : CPushLock(t, 1, e)
    \/ \E t \in TsThreads : CPushBody(t)
    \/ \E t \in TsThreads : CPopCheck(t, 1)
    \/ \E t \in TsThreads : CPopLock(t)
    \/ \E t \in TsThreads : CPopBody(t)

\* Every call of a single thread on the queues and the list handles.
TsSeqNext ==
    \/ \E e \in Elements : Acquire(e) \/ Release(e)
    \/ \E q \in Queues, e \in Elements : TsPush(q, e) \/ TsErase(q, e, TRUE) \/ TsErase(q, e, FALSE)
    \/ \E q \in Queues : TsPop(q)
    \/ \E q \in Queues, l \in Lists : TsPushList(q, l) \/ TsPopAll(q, l)
    \/ \E q \in Queues, l \in Lists, n \in 0..(NumElements + 1) :
           TsPopFront(q, n, l) \/ TsPopBack(q, n, l)
    \/ \E l, o \in Lists, n \in 0..(NumElements + 1) : ListCut(l, n, o)
    \/ \E l \in Lists : ListClear(l)

\* ============================================== LinkedList and the wait queue
LlNodes == 1..NumLlNodes
LlLists == 1..NumLlLists
NoLinks == [prev |-> Null, next |-> Null]
NoLlCall == [op |-> "none", l |-> Null, n |-> Null, ret |-> Null, pos |-> "none"]
NotGone == [l |-> Null, pos |-> "none"]

\* LinkedList(): clear().  No node is linked, nobody waits.
LlStart(foreign) ==
    /\ ll_node = [n \in LlNodes |-> NoLinks]
    /\ ll_list = [l \in LlLists |-> [head_ |-> Null, tail_ |-> Null]]
    /\ ll_order = [l \in LlLists |-> <<>>]
    /\ ll_call = NoLlCall
    /\ ll_gone = [n \in LlNodes |-> NotGone]
    /\ ll_crash = FALSE
    /\ ll_foreign = foreign
    /\ wq_lock = Null
    /\ wq_pc = [t \in SwThreads |-> "off"]
    /\ wq_got = [t \in SwThreads |-> Null]
LlIdle == LlStart(FALSE)

\* The nodes of a list, read from head_ along next.
LlChain(l) == Chain(ll_node, ll_list[l].head_, NumLlNodes)
LlMember(l, n) == \E k \in 1..Len(LlChain(l)) : LlChain(l)[k] = n
\* front()
front(l) == ll_list[l].head_

\* is_linked() reading the next link alone
is_linkedNextOnly(n) == ll_node[n].next # Null
\* LinkedNode::is_linked(): return prev || next
is_linked(n) == ll_node[n].prev # Null \/ ll_node[n].next # Null

\* push that links the node in front of the others
pushAtFront(nodes, list, n) ==
    IF list.head_ = Null
    THEN [node |-> [nodes EXCEPT ![n] = NoLinks],
          list |-> [head_ |-> n, tail_ |-> n]]
    ELSE [node |-> [[nodes EXCEPT ![list.head_].prev = n]
                        EXCEPT ![n] = [prev |-> Null, next |-> list.head_]],
          list |-> [list EXCEPT !.head_ = n]]

\* push(node): the links and the list after the call
push(nodes, list, n) ==
    IF list.tail_ = Null
    THEN [node |-> [nodes EXCEPT ![n] = NoLinks],
          list |-> [head_ |-> n, tail_ |-> n]]
    ELSE [node |-> [[nodes EXCEPT ![list.tail_].next = n]
                        EXCEPT ![n] = [prev |-> list.tail_, next |-> Null]],
          list |-> [list EXCEPT !.tail_ = n]]

\* unlink leaving the node's links as they were
NotCleared(nodes, n) == nodes
\* node->next = node->prev = nullptr
Cleared(nodes, n) == [nodes EXCEPT ![n] = NoLinks]

\* unlink(node): the links and the list after the call, the value returned,
\* and whether the call followed a null pointer (tail_->next with tail_ null).
unlink(nodes, list, n) ==
    IF list.head_ = list.tail_ /\ list.head_ = n
    THEN [node |-> Cleared(nodes, n),
          list |-> [head_ |-> Null, tail_ |-> Null], ret |-> TRUE, crash |-> FALSE]
    ELSE IF list.tail_ = n
    THEN LET t == nodes[n].prev
         IN  IF t = Null
             THEN [node |-> nodes, list |-> list, ret |-> FALSE, crash |-> TRUE]
             ELSE [node |-> Cleared([nodes EXCEPT ![t].next = Null], n),
                   list |-> [list EXCEPT !.tail_ = t], ret |-> TRUE, crash |-> FALSE]
    ELSE IF list.head_ = n
    THEN [node |-> Cleared(nodes, n),
          list |-> [list EXCEPT !.head_ = nodes[n].next], ret |-> TRUE, crash |-> FALSE]
    ELSE LET p == nodes[n].prev
             x == nodes[n].next
             h1 == IF p # Null THEN [nodes EXCEPT ![p].next = x] ELSE nodes
             h2 == IF x # Null THEN [h1 EXCEPT ![x].prev = p] ELSE h1
         IN  [node |-> Cleared(h2, n), list |-> list,
              ret |-> (p # Null \/ x # Null), crash |-> FALSE]

\* The order a list is meant to have after unlink(n)
Without(s, n) == SelectSeq(s, LAMBDA x : x # n)

\* Whether some list holds the node: it is linked into one, or was pushed
\* to one and not unlinked from it since.
Held(n) ==
    \E k \in LlLists :
        LlMember(k, n) \/ \E i \in 1..Len(ll_order[k]) : ll_order[k][i] = n

\* A caller pushes a node that no list holds.
LlPush(l, n) ==
    /\ ~ll_crash
    /\ ~Held(n)
    /\ LET r == push(ll_node, ll_list[l], n)
       IN  /\ ll_node' = r.node
           /\ ll_list' = [ll_list EXCEPT ![l] = r.list]
    /\ ll_order' = [ll_order EXCEPT ![l] = Append(@, n)]
    /\ ll_call' = [op |-> "push", l |-> l, n |-> n, ret |-> Null, pos |-> "none"]
    /\ ll_gone' = IF ll_foreign THEN ll_gone ELSE [ll_gone EXCEPT ![n] = NotGone]
    /\ UNCHANGED <<ll_crash, ll_foreign, wq_lock, wq_pc, wq_got>>
    /\ UNCHANGED exceptLl

\* A caller reads the front of a list.
LlFront(l) ==
    /\ ~ll_crash
    /\ ll_call' = [op |-> "front", l |-> l, n |-> Null, ret |-> front(l), pos |-> "none"]
    /\ UNCHANGED <<ll_node, ll_list, ll_order, ll_gone, ll_crash, ll_foreign, wq_lock, wq_pc, wq_got>>
    /\ UNCHANGED exceptLl

\* Where in the list a node stands
Position(l, n) ==
    LET c == LlChain(l)
    IN  IF ~LlMember(l, n) THEN "none"
        ELSE IF Len(c) = 1 THEN "sole"
        ELSE IF c[1] = n THEN "head"
        ELSE IF c[Len(c)] = n THEN "tail"
        ELSE "middle"

\* A caller unlinks a node: one of the list, one that no list holds, or
\* (ll_foreign) one that another list holds.
LlUnlink(l, n) ==
    /\ ~ll_crash
    /\ ll_foreign \/ LlMember(l, n) \/ ~Held(n)
    /\ LET r == unlink(ll_node, ll_list[l], n)
       IN  /\ ll_node' = r.node
           /\ ll_list' = [ll_list EXCEPT ![l] = r.list]
           /\ ll_crash' = r.crash
           /\ ll_call' = [op |-> "unlink", l |-> l, n |-> n, ret |-> r.ret,
                          pos |-> Position(l, n)]
           /\ ll_gone' = IF r.ret /\ ~ll_foreign
                         THEN [ll_gone EXCEPT ![n] = [l |-> l, pos |-> Position(l, n)]]
                         ELSE ll_gone
    /\ ll_order' = [ll_order EXCEPT ![l] = Without(@, n)]
    /\ UNCHANGED <<ll_foreign, wq_lock, wq_pc, wq_got>>
    /\ UNCHANGED exceptLl

LlNext ==
    \/ \E l \in LlLists, n \in LlNodes : LlPush(l, n)
    \/ \E l \in LlLists : LlFront(l)
    \/ \E l \in LlLists, n \in LlNodes : LlUnlink(l, n)

\* ------------------------------------------------------------ the wait queue
\* RutexBase keeps the records of its waiters in waiters_ (list 1 here) under
\* mtx_ (wq_lock).  The Sleeper is the waiter, its record is node 1; every
\* waker runs wake_one.
WqStart ==
    /\ ll_node = [n \in LlNodes |-> NoLinks]
    /\ ll_list = [l \in LlLists |-> [head_ |-> Null, tail_ |-> Null]]
    /\ ll_order = [l \in LlLists |-> <<>>]
    /\ ll_call = NoLlCall
    /\ ll_gone = [n \in LlNodes |-> NotGone]
    /\ ll_crash = FALSE
    /\ ll_foreign = FALSE
    /\ wq_lock = Null
    /\ wq_pc = [t \in SwThreads |-> "start"]
    /\ wq_got = [t \in SwThreads |-> Null]

\* wait: after mark(), take the structural lock
WqWaitLock ==
    /\ sw_pc[Sleeper] = "marked"
    /\ wq_pc[Sleeper] = "start"
    /\ wq_lock = Null
    /\ wq_lock' = Sleeper
    /\ wq_pc' = [wq_pc EXCEPT ![Sleeper] = "locked"]
    /\ UNCHANGED <<ll_node, ll_list, ll_order, ll_call, ll_gone, ll_crash, ll_foreign, wq_got>>
    /\ UNCHANGED exceptLl

\* wait: link the record into the list and release the lock
WqWaitLink ==
    /\ wq_pc[Sleeper] = "locked"
    /\ LET r == push(ll_node, ll_list[1], 1)
       IN  /\ ll_node' = r.node
           /\ ll_list' = [ll_list EXCEPT ![1] = r.list]
    /\ ll_order' = [ll_order EXCEPT ![1] = Append(@, 1)]
    /\ ll_call' = [op |-> "push", l |-> 1, n |-> 1, ret |-> Null, pos |-> "none"]
    /\ wq_lock' = Null
    /\ wq_pc' = [wq_pc EXCEPT ![Sleeper] = "linked"]
    /\ UNCHANGED <<ll_gone, ll_crash, ll_foreign, wq_got>>
    /\ UNCHANGED exceptLl

\* wait: sleep() on the waiter's switcher, once the record is linked
WqSleepLock == wq_pc[Sleeper] = "linked" /\ SleepLock

\* wake_one: take the structural lock
WqWakeLock(w) ==
    /\ wq_pc[w] = "start"
    /\ wq_lock = Null
    /\ wq_lock' = w
    /\ wq_pc' = [wq_pc EXCEPT ![w] = "locked"]
    /\ UNCHANGED <<ll_node, ll_list, ll_order, ll_call, ll_gone, ll_crash, ll_foreign, wq_got>>
    /\ UNCHANGED exceptLl

\* wake_one: unlink the front record, if there is one, and release the lock
WqWakeUnlink(w) ==
    /\ wq_pc[w] = "locked"
    /\ LET n == front(1)
           r == unlink(ll_node, ll_list[1], n)
       IN  IF n = Null
           THEN /\ wq_pc' = [wq_pc EXCEPT ![w] = "empty"]
                /\ UNCHANGED <<ll_node, ll_list, ll_order, ll_call, wq_got>>
           ELSE /\ ll_node' = r.node
                /\ ll_list' = [ll_list EXCEPT ![1] = r.list]
                /\ ll_order' = [ll_order EXCEPT ![1] = Without(@, n)]
                /\ ll_call' = [op |-> "unlink", l |-> 1, n |-> n, ret |-> r.ret,
                               pos |-> Position(1, n)]
                /\ wq_got' = [wq_got EXCEPT ![w] = n]
                /\ wq_pc' = [wq_pc EXCEPT ![w] = "unlinked"]
    /\ wq_lock' = Null
    /\ UNCHANGED <<ll_gone, ll_crash, ll_foreign>>
    /\ UNCHANGED exceptLl

\* wake_one: wake() on the switcher of the waiter whose record was unlinked
WqWakeCall(w) == wq_pc[w] = "unlinked" /\ WakeCall(w)

WqWaiterStep ==
    \/ MarkLock
    \/ MarkStore
    \/ WqWaitLock
    \/ WqWaitLink
    \/ WqSleepLock
    \/ SleepStore
    \/ SleepCheck
    \/ SleepRelock
WqWakerStep(w) ==
    \/ WqWakeLock(w)
    \/ WqWakeUnlink(w)
    \/ WqWakeCall(w)
    \/ WakeLock(w)
    \/ WakeBody(w)
WqNext ==
    \/ MarkLock
    \/ MarkStore
    \/ WqWaitLock
    \/ WqWaitLink
    \/ WqSleepLock
    \/ SleepStore
    \/ SleepCheck
    \/ SleepRelock
    \/ SpuriousWakeup
    \/ \E w \in Wakers : WqWakeLock(w)
    \/ \E w \in Wakers : WqWakeUnlink(w)
    \/ \E w \in Wakers : WqWakeCall(w)
    \/ \E w \in Wakers : WakeLock(w)
    \/ \E w \in Wakers : WakeBody(w)

\* ============================================================ Context switching
Carrier == 0
Contexts == 1..NumContexts
Stacks == {Carrier} \cup Contexts
\* A saved machine state: the stack it lives on and the call that saved it
\* (call 0 of a Context is the state libgo_make_fcontext builds).
SavedState(u, k) == [unit |-> u, site |-> k]
SavedStates == [unit : Stacks, site : 0..MaxSwaps]
\* tls_context before the first SwapIn names no state.
NoState == SavedState(Carrier, 0)
NotEntered == [by |-> "none", from |-> NoState, clean |-> FALSE]
NoCxCall == [op |-> "none", c |-> Carrier, entered |-> NotEntered, resumed |-> NoState]

\* Context(): ctx_ = libgo_make_fcontext(...); the carrier thread runs on its own stack.
CxStart ==
    /\ cx_cur = Carrier
    /\ cx_ctx = [c \in Contexts |-> SavedState(c, 0)]
    /\ cx_tls = NoState
    /\ cx_susp = [u \in Stacks |-> IF u = Carrier THEN -1 ELSE 0]
    /\ cx_entered = [c \in Contexts |-> NotEntered]
    /\ cx_call = NoCxCall
    /\ cx_seq = 0
    /\ cx_ub = FALSE
CxIdle == CxStart

\* A saved state can be resumed while its stack is still suspended in the
\* call that saved it.
Resumable(s) == s.unit # cx_cur /\ cx_susp[s.unit] = s.site
\* SwapOut jumping to the Context's own ctx_ instead of the thread's slot
SwapOutToSelf == cx_ctx[cx_cur]
\* GetTlsContext(): the one slot of the carrier thread
GetTlsContext == cx_tls

\* libgo_jump_fcontext(&ofc, nfc, vp): the running stack is suspended in call k
\* and its state stored (by the caller of Jump) in ofc; control goes to nfc.
Jump(k, nfc) ==
    /\ cx_cur' = nfc.unit
    /\ cx_susp' = [[cx_susp EXCEPT ![cx_cur] = k] EXCEPT ![nfc.unit] = -1]
    /\ cx_seq' = k
    /\ cx_ub' = FALSE

\* c.SwapIn(), from the carrier thread's own stack or from inside a Context
SwapIn(c) ==
    /\ ~cx_ub /\ cx_seq < MaxSwaps
    /\ c # cx_cur /\ Resumable(cx_ctx[c])
    /\ LET k == cx_seq + 1
           saved == SavedState(cx_cur, k)
       IN  /\ cx_tls' = saved
           /\ Jump(k, cx_ctx[c])
           /\ cx_entered' = [x \in Contexts |->
                  IF x = c THEN [by |-> "SwapIn", from |-> saved, clean |-> TRUE]
                  ELSE [cx_entered[x] EXCEPT !.clean = FALSE]]
           /\ cx_call' = [op |-> "SwapIn", c |-> c, entered |-> NotEntered,
                          resumed |-> cx_ctx[c]]
    /\ UNCHANGED cx_ctx
    /\ UNCHANGED exceptCx

\* SwapTo(other), called by the running Context on itself
SwapTo(other) ==
    /\ ~cx_ub /\ cx_seq < MaxSwaps
    /\ cx_cur # Carrier
    /\ other # cx_cur /\ Resumable(cx_ctx[other])
    /\ LET k == cx_seq + 1
           saved == SavedState(cx_cur, k)
       IN  /\ cx_ctx' = [cx_ctx EXCEPT ![cx_cur] = saved]
           /\ Jump(k, cx_ctx[other])
           /\ cx_entered' = [cx_entered EXCEPT
                  ![other] = [by |-> "SwapTo", from |-> saved, clean |-> TRUE]]
           /\ cx_call' = [op |-> "SwapTo", c |-> cx_cur, entered |-> cx_entered[cx_cur],
                          resumed |-> cx_ctx[other]]
    /\ UNCHANGED cx_tls
    /\ UNCHANGED exceptCx

\* SwapOut(), called by the running Context on itself.  When the slot names a
\* state that is gone the jump is undefined: control ends up anywhere.
SwapOut ==
    /\ ~cx_ub /\ cx_seq < MaxSwaps
    /\ cx_cur # Carrier
    /\ LET k == cx_seq + 1
           saved == SavedState(cx_cur, k)
           nfc == GetTlsContext
       IN  /\ cx_ctx' = [cx_ctx EXCEPT ![cx_cur] = saved]
           /\ IF Resumable(nfc)
              THEN /\ Jump(k, nfc)
                   /\ cx_call' = [op |-> "SwapOut", c |-> cx_cur,
                                  entered |-> cx_entered[cx_cur], resumed |-> nfc]
              ELSE /\ \E r \in SavedStates :
                        /\ cx_cur' = r.unit
                        /\ cx_call' = [op |-> "SwapOut", c |-> cx_cur,
                                       entered |-> cx_entered[cx_cur], resumed |-> r]
                   /\ cx_susp' = [cx_susp EXCEPT ![cx_cur] = k]
                   /\ cx_seq' = k
                   /\ cx_ub' = TRUE
    /\ UNCHANGED <<cx_tls, cx_entered>>
    /\ UNCHANGED exceptCx

CxNext ==
    \/ \E c \in Contexts : SwapIn(c)
    \/ \E c \in Contexts : SwapTo(c)
    \/ SwapOut

\* ========================================================== RoutineSyncPolicy
\* The plain-thread switcher and two coroutine switchers.
Kinds == {"PThreadSwitcher", "CoSwitcherA", "CoSwitcherB"}
KindLists == UNION {[1..len -> Kinds] : len \in 1..MaxKinds}
Levels == -2..MaxLevel
\* The kinds whose isInRoutine() may be true of a calling thread;
\* PThreadSwitcher::isInRoutine() returns true always.
InRoutineSets == {in \in SUBSET Kinds : "PThreadSwitcher" \in in}
NoPlCall == [op |-> "none", level |-> -1, kinds |-> <<>>,
             before |-> [level |-> -1, kinds |-> <<>>, best |-> -1], in |-> {}, ret |-> "none"]

PlStart ==
    /\ pl_level = -1
    /\ pl_kinds = <<>>
    /\ pl_inited = FALSE
    /\ pl_best = -1
    /\ pl_call = NoPlCall
PlIdle == PlStart

\* A registration that also takes a level equal to the stored one
AcceptsEqual(overlappedLevel, lv) == overlappedLevel >= lv
\* RegisterSwitcher: !(overlappedLevel <= refOverlappedLevel())
Accepts(overlappedLevel, lv) == ~(overlappedLevel <= lv)

\* RegisterSwitcher<Switchers...>(overlappedLevel): the policy afterwards and
\* the value returned
Registered(kinds, overlappedLevel, lv, installed) ==
    IF Accepts(overlappedLevel, lv)
    THEN [level |-> overlappedLevel, kinds |-> kinds, ret |-> TRUE]
    ELSE [level |-> lv, kinds |-> installed, ret |-> FALSE]

RECURSIVE clsRef_T(_, _)
\* clsRef_T<S1, ...>(): the kind whose clsRef() is returned
clsRef_T(ks, in) ==
    IF ks[1] \in in THEN ks[1]
    ELSE IF Len(ks) = 1 THEN "PThreadSwitcher"
    ELSE clsRef_T(Tail(ks), in)

\* isInPThread_T that answers for the kind clsRef_T selects
isInPThreadBySelection(ks, in) == clsRef_T(ks, in) = "PThreadSwitcher"
RECURSIVE isInPThread_T(_, _)
\* isInPThread_T<S1, ...>()
isInPThread_T(ks, in) ==
    IF ks[1] \in in THEN FALSE
    ELSE IF Len(ks) = 1 THEN TRUE
    ELSE isInPThread_T(Tail(ks), in)

\* The policy as it stands
Policy == [level |-> pl_level, kinds |-> pl_kinds, best |-> pl_best]

\* RegisterSwitcher<kinds>(overlappedLevel)
RegisterSwitcher(kinds, overlappedLevel) ==
    /\ LET r == Registered(kinds, overlappedLevel, pl_level, pl_kinds)
       IN  /\ pl_level' = r.level
           /\ pl_kinds' = r.kinds
           /\ pl_best' = IF r.ret /\ overlappedLevel > pl_best THEN overlappedLevel ELSE pl_best
           /\ pl_call' = [op |-> "RegisterSwitcher", level |-> overlappedLevel, kinds |-> kinds,
                          before |-> Policy, in |-> {}, ret |-> r.ret]
    /\ UNCHANGED pl_inited
    /\ UNCHANGED exceptPl

\* routine_sync_init_callback(), run once by the first ClsRef() or
\* IsInPThread(): it registers the default switchers, or nothing.  The
\* policies it can leave behind.
InitCallback ==
    IF pl_inited THEN {Policy}
    ELSE {Policy} \cup
         {LET r == Registered(kinds, lv, pl_level, pl_kinds)
          IN  [level |-> r.level, kinds |-> r.kinds,
               best |-> IF r.ret /\ lv > pl_best THEN lv ELSE pl_best] :
             kinds \in KindLists, lv \in Levels}

\* ClsRef() on a thread of which isInRoutine() holds for the kinds in `in`.
\* Calling an empty std::function throws.
ClsRef(in) ==
    /\ \E after \in InitCallback :
          /\ pl_level' = after.level
          /\ pl_kinds' = after.kinds
          /\ pl_best' = after.best
          /\ pl_call' = [op |-> "ClsRef", level |-> after.level, kinds |-> after.kinds,
                         before |-> Policy, in |-> in,
                         ret |-> IF after.kinds = <<>> THEN "bad_function_call"
                                 ELSE clsRef_T(after.kinds, in)]
    /\ pl_inited' = TRUE
    /\ UNCHANGED exceptPl

\* IsInPThread() on such a thread
IsInPThread(in) ==
    /\ \E after \in InitCallback :
          /\ pl_level' = after.level
          /\ pl_kinds' = after.kinds
          /\ pl_best' = after.best
          /\ pl_call' = [op |-> "IsInPThread", level |-> after.level, kinds |-> after.kinds,
                         before |-> Policy, in |-> in,
                         ret |-> IF after.kinds = <<>> THEN "bad_function_call"
                                 ELSE isInPThread_T(after.kinds, in)]
    /\ pl_inited' = TRUE
    /\ UNCHANGED exceptPl

PlNext ==
    \/ \E kinds \in KindLists, lv \in Levels : RegisterSwitcher(kinds, lv)
    \/ \E in \in InRoutineSets : ClsRef(in)
    \/ \E in \in InRoutineSets : IsInPThread(in)

\* ============================================================ stack guard pages
\* #define PAGE_SIZE 0x1000; getpagesize() returns the same on the target.
PAGE_SIZE == 4096
\* ~PAGE_SIZE converted to std::size_t, cut to the address width
NotPageSize == (2^AddrBits - 1) - PAGE_SIZE
\* ~(std::size_t)(~PAGE_SIZE)
NotNotPageSize == (2^AddrBits - 1) - NotPageSize
Pages == 0..((2^AddrBits \div PAGE_SIZE) - 1)
\* What malloc may return for a stack, and the sizes asked for
Bases == {p * PAGE_SIZE + o : p \in 1..MaxBasePage, o \in {0, 16, 2048}}
StackSizes == {p * PAGE_SIZE : p \in 1..MaxStackPages}
NoRange == [addr |-> 0, len |-> 0]
NoContext == [state |-> "none", stack_ |-> Null, stackSize_ |-> 0, protectPage_ |-> 0,
              guard |-> NoRange]
NoGpCall == [op |-> "none", installed |-> FALSE, unprotect |-> NoRange, changed |-> {}]

GpStart ==
    /\ gp_pageNum = 0
    /\ gp_ctx = NoContext
    /\ gp_prot = [p \in Pages |-> "rw"]
    /\ gp_call = NoGpCall
GpIdle == GpStart

\* ProtectStack: (int)size <= (pageNum+1)*getpagesize()
TooSmall(stackSize, pageNum) == stackSize <= (pageNum + 1) * PAGE_SIZE
\* ProtectStack / UnprotectStack: protect_page_addr
ProtectPageAddr(stack) ==
    IF BitAnd(stack, NotPageSize) # 0
    THEN BitAnd(stack, NotNotPageSize) + PAGE_SIZE
    ELSE stack
\* The range ProtectStack and UnprotectStack hand to mprotect
GuardRange(stack, pageNum) == [addr |-> ProtectPageAddr(stack), len |-> pageNum * PAGE_SIZE]
PagesOf(range) == {p \in Pages : range.addr <= p * PAGE_SIZE /\ p * PAGE_SIZE < range.addr + range.len}

\* mprotect fails on an address that is not page aligned; otherwise it
\* succeeds or fails as the kernel and the memory map decide.
MprotectOutcomes(range) == IF range.addr % PAGE_SIZE = 0 THEN BOOLEAN ELSE {FALSE}
Mprotected(range, prot, ok) ==
    IF ok THEN [p \in Pages |-> IF p \in PagesOf(range) THEN prot ELSE gp_prot[p]]
    ELSE gp_prot

\* A caller sets the guard page count.
SetProtectStackPageSize(n) ==
    /\ gp_pageNum # n
    /\ gp_pageNum' = n
    /\ gp_call' = NoGpCall
    /\ UNCHANGED <<gp_ctx, gp_prot>>
    /\ UNCHANGED exceptGp

\* Context(fn, vp, stackSize): malloc, make_fcontext, ProtectStack when the
\* page count is positive; the value ProtectStack returns is not looked at.
NewContext(stack, stackSize) ==
    /\ gp_ctx.state # "live"
    /\ LET protectPage == gp_pageNum
           range == GuardRange(stack, protectPage)
           calls == protectPage > 0 /\ ~TooSmall(stackSize, protectPage)
       IN  \E ok \in (IF calls THEN MprotectOutcomes(range) ELSE {FALSE}) :
              /\ gp_prot' = Mprotected(range, "none", ok)
              /\ gp_ctx' = [state |-> "live", stack_ |-> stack, stackSize_ |-> stackSize,
                            protectPage_ |-> IF protectPage > 0 THEN protectPage ELSE 0,
                            guard |-> IF ok THEN range ELSE NoRange]
              /\ gp_call' = [op |-> "Context", installed |-> ok, unprotect |-> NoRange,
                             changed |-> {p \in Pages : gp_prot'[p] # gp_prot[p]}]
    /\ UNCHANGED gp_pageNum
    /\ UNCHANGED exceptGp

\* ~Context(): UnprotectStack when protectPage_ is set, then free
DeleteContext ==
    /\ gp_ctx.state = "live"
    /\ LET range == GuardRange(gp_ctx.stack_, gp_ctx.protectPage_)
           calls == gp_ctx.stack_ # Null /\ gp_ctx.protectPage_ # 0
       IN  \E ok \in (IF calls THEN MprotectOutcomes(range) ELSE {FALSE}) :
              /\ gp_prot' = Mprotected(range, "rwx", ok)
              /\ gp_call' = [op |-> "~Context", installed |-> gp_ctx.guard # NoRange,
                             unprotect |-> IF calls THEN range ELSE NoRange,
                             changed |-> {p \in Pages : gp_prot'[p] # gp_prot[p]}]
    /\ gp_ctx' = [gp_ctx EXCEPT !.state = "freed"]
    /\ UNCHANGED gp_pageNum
    /\ UNCHANGED exceptGp

GpNext ==
    \/ \E n \in 0..MaxGuardPages : SetProtectStackPageSize(n)
    \/ \E stack \in Bases, stackSize \in StackSizes : NewContext(stack, stackSize)
    \/ DeleteContext

\* ===================================== SharedRefWrapper, IncursivePtr, WeakPtr
WkThreads == 1..NumWkThreads
\* What a counter of a freed control block can read as.
Counts == 0..MaxHandles
NoLoc == [count |-> 0, start |-> FALSE, cas |-> FALSE]
NoWkCall == [op |-> "none", ret |-> "none", start |-> FALSE, cas |-> FALSE]

RECURSIVE WkSum(_, _)
WkSum(f, S) == IF S = {} THEN 0 ELSE LET t == CHOOSE x \in S : TRUE IN f[t] + WkSum(f, S \ {t})
StrongHandles == WkSum(wk_strong, WkThreads)
WeakHandles == WkSum(wk_weak, WkThreads)

\* new T (a SharedRefWrapper: both counters 0) handed to IncursivePtr<T>(ptr) by thread 1.
WkStart ==
    /\ reference_ = 1
    /\ weak_ = 0
    /\ wk_deleted = 0
    /\ wk_freed = 0
    /\ wk_strong = [t \in WkThreads |-> IF t = 1 THEN 1 ELSE 0]
    /\ wk_weak = [t \in WkThreads |-> 0]
    /\ wk_pc = [t \in WkThreads |-> "idle"]
    /\ wk_loc = [t \in WkThreads |-> NoLoc]
    /\ wk_zero = FALSE
    /\ wk_call = NoWkCall
    /\ wk_ub = FALSE
WkIdle ==
    /\ reference_ = 0
    /\ weak_ = 0
    /\ wk_deleted = 0
    /\ wk_freed = 0
    /\ wk_strong = [t \in WkThreads |-> 0]
    /\ wk_weak = [t \in WkThreads |-> 0]
    /\ wk_pc = [t \in WkThreads |-> "idle"]
    /\ wk_loc = [t \in WkThreads |-> NoLoc]
    /\ wk_zero = FALSE
    /\ wk_call = NoWkCall
    /\ wk_ub = FALSE

\* A load of reference_ / weak_: the stored value while the block is allocated,
\* any value once it has been deleted (the memory belongs to the allocator).
ReadReference == IF wk_freed = 0 THEN {reference_} ELSE Counts
ReadWeak == IF wk_freed = 0 THEN {weak_} ELSE Counts
\* A store to a counter: lost when the block has been deleted.
Written(old, v) == IF wk_freed = 0 THEN v ELSE old
\* `delete` once more.
Again(n) == IF n = 0 THEN 1 ELSE 2

\* IncursivePtr(IncursivePtr const&): RefObject::AddRef on an object some handle names.
WkCopy(t) ==
    /\ wk_pc[t] = "idle"
    /\ StrongHandles > 0
    /\ StrongHandles < MaxHandles
    /\ \E c \in ReadReference : reference_' = Written(reference_, c + 1)
    /\ wk_strong' = [wk_strong EXCEPT ![t] = @ + 1]
    /\ wk_ub' = (wk_ub \/ wk_freed > 0 \/ wk_deleted > 0)
    /\ UNCHANGED <<weak_, wk_deleted, wk_freed, wk_weak, wk_pc, wk_loc, wk_zero, wk_call>>
    /\ UNCHANGED exceptWk

\* RefObjectImpl::AddWeakRef.
AddWeakRef(t) ==
    /\ \E w \in ReadWeak : weak_' = Written(weak_, w + 1)
    /\ wk_weak' = [wk_weak EXCEPT ![t] = @ + 1]
    /\ wk_ub' = (wk_ub \/ wk_freed > 0)
    /\ UNCHANGED <<reference_, wk_deleted, wk_freed, wk_strong, wk_pc, wk_loc, wk_zero, wk_call>>
    /\ UNCHANGED exceptWk

\* WeakPtr(IncursivePtr const&): reset(ptr) on an empty WeakPtr; ptr->IsShared() holds.
WkNewWeak(t) ==
    /\ wk_pc[t] = "idle"
    /\ StrongHandles > 0
    /\ WeakHandles < MaxHandles
    /\ AddWeakRef(t)

\* WeakPtr(WeakPtr const&).
WkCopyWeak(t) ==
    /\ wk_pc[t] = "idle"
    /\ WeakHandles > 0
    /\ WeakHandles < MaxHandles
    /\ AddWeakRef(t)

\* WeakPtr::reset() / ~WeakPtr: DecWeakRef up to its test of weak_ == 0.
WkReset(t) ==
    /\ wk_pc[t] = "idle"
    /\ wk_weak[t] > 0
    /\ wk_weak' = [wk_weak EXCEPT ![t] = @ - 1]
    /\ \E w \in ReadWeak :
          wk_pc' = [wk_pc EXCEPT ![t] = IF w = 0 THEN "idle" ELSE "DecWeakRef"]
    /\ wk_ub' = (wk_ub \/ wk_freed > 0)
    /\ UNCHANGED <<reference_, weak_, wk_deleted, wk_freed, wk_strong, wk_loc, wk_zero, wk_call>>
    /\ UNCHANGED exceptWk

\* DecWeakRef: --weak_ and, at zero, delete this.
DecWeakRef(t) ==
    /\ wk_pc[t] = "DecWeakRef"
    /\ \E w \in ReadWeak :
          /\ weak_' = Written(weak_, w - 1)
          /\ wk_freed' = IF w - 1 = 0 THEN Again(wk_freed) ELSE wk_freed
    /\ wk_pc' = [wk_pc EXCEPT ![t] = "idle"]
    /\ wk_ub' = (wk_ub \/ wk_freed > 0)
    /\ UNCHANGED <<reference_, wk_deleted, wk_strong, wk_weak, wk_loc, wk_zero, wk_call>>
    /\ UNCHANGED exceptWk

\* The end of a call: Lock() hands its caller a new strong handle.
Return(t, inLock) ==
    /\ wk_pc' = [wk_pc EXCEPT ![t] = "idle"]
    /\ wk_loc' = [wk_loc EXCEPT ![t] = NoLoc]
    /\ IF inLock
         THEN /\ wk_strong' = [wk_strong EXCEPT ![t] = @ + 1]
              /\ wk_call' = [op |-> "Lock", ret |-> "handle", start |-> wk_loc[t].start,
                             cas |-> wk_loc[t].cas]
         ELSE UNCHANGED <<wk_strong, wk_call>>

\* RefObject::DecRef up to its test of *refCount_ == 0 (SharedRefWrapper::DecRef
\* passes its own two tests: impl_ and refCount_ are set by the constructor).
DecRefTest(t, inLock) ==
    /\ wk_ub' = (wk_ub \/ wk_freed > 0 \/ wk_deleted > 0)
    /\ \E c \in ReadReference :
          IF c = 0
            THEN Return(t, inLock)
            ELSE /\ wk_pc' = [wk_pc EXCEPT ![t] = IF inLock THEN "LockDecRef" ELSE "DecRef"]
                 /\ UNCHANGED <<wk_strong, wk_call, wk_loc>>
    /\ UNCHANGED <<reference_, weak_, wk_deleted, wk_freed, wk_weak, wk_zero>>
    /\ UNCHANGED exceptWk

\* ~IncursivePtr / IncursivePtr::reset(): ptr_->DecRef().
WkRelease(t) ==
    /\ wk_pc[t] = "idle"
    /\ wk_strong[t] > 0
    /\ wk_ub' = (wk_ub \/ wk_freed > 0 \/ wk_deleted > 0)
    /\ wk_strong' = [wk_strong EXCEPT ![t] = @ - 1]
    /\ \E c \in ReadReference :
          wk_pc' = [wk_pc EXCEPT ![t] = IF c = 0 THEN "idle" ELSE "DecRef"]
    /\ UNCHANGED <<reference_, weak_, wk_deleted, wk_freed, wk_weak, wk_loc, wk_zero, wk_call>>
    /\ UNCHANGED exceptWk

\* RefObject::DecRef: --(*refCount_) and, at zero, delete this.
DecRefCount(t) ==
    /\ wk_pc[t] \in {"DecRef", "LockDecRef"}
    /\ wk_ub' = (wk_ub \/ wk_freed > 0 \/ wk_deleted > 0)
    /\ \E c \in ReadReference :
          /\ reference_' = Written(reference_, c - 1)
          /\ IF c - 1 = 0
               THEN /\ wk_deleted' = Again(wk_deleted)
                    /\ wk_zero' = TRUE
                    /\ wk_pc' = [wk_pc EXCEPT ![t] = IF @ = "DecRef" THEN "dtor" ELSE "LockDtor"]
                    /\ UNCHANGED <<wk_strong, wk_call, wk_loc>>
               ELSE /\ Return(t, wk_pc[t] = "LockDecRef")
                    /\ UNCHANGED <<wk_deleted, wk_zero>>
    /\ UNCHANGED <<weak_, wk_freed, wk_weak>>
    /\ UNCHANGED exceptWk

\* ~SharedRefWrapper, run by delete this: deletes impl_ when both counters read zero.
Destructor(t) ==
    /\ wk_pc[t] \in {"dtor", "LockDtor"}
    /\ wk_ub' = (wk_ub \/ wk_freed > 0)
    /\ \E c \in ReadReference, w \in ReadWeak :
          wk_freed' = IF c = 0 /\ w = 0 THEN Again(wk_freed) ELSE wk_freed
    /\ Return(t, wk_pc[t] = "LockDtor")
    /\ UNCHANGED <<reference_, weak_, wk_deleted, wk_weak, wk_zero>>
    /\ UNCHANGED exceptWk

\* WeakPtr::Lock (impl_ is set) into RefObjectImpl::Lock: count = reference_.load().
WkLock(t) ==
    /\ wk_pc[t] = "idle"
    /\ wk_weak[t] > 0
    /\ StrongHandles < MaxHandles
    /\ \E c \in ReadReference :
          wk_loc' = [wk_loc EXCEPT ![t] = [count |-> c, start |-> wk_zero, cas |-> FALSE]]
    /\ wk_pc' = [wk_pc EXCEPT ![t] = "Lock"]
    /\ wk_ub' = (wk_ub \/ wk_freed > 0)
    /\ UNCHANGED <<reference_, weak_, wk_deleted, wk_freed, wk_strong, wk_weak, wk_zero, wk_call>>
    /\ UNCHANGED exceptWk

\* RefObjectImpl::Lock: count == 0, return false; WeakPtr::Lock returns an empty handle.
LockFails(t) ==
    /\ wk_pc[t] = "Lock"
    /\ wk_loc[t].count = 0
    /\ wk_pc' = [wk_pc EXCEPT ![t] = "idle"]
    /\ wk_loc' = [wk_loc EXCEPT ![t] = NoLoc]
    /\ wk_call' = [op |-> "Lock", ret |-> "null", start |-> wk_loc[t].start, cas |-> FALSE]
    /\ UNCHANGED <<reference_, weak_, wk_deleted, wk_freed, wk_strong, wk_weak, wk_zero, wk_ub>>
    /\ UNCHANGED exceptWk

\* The loop of RefObjectImpl::Lock goes on to the exchange only with count != 0.
LockTest(count) == count # 0

\* reference_.compare_exchange_weak(count, count + 1) succeeds.
LockExchanges(t) ==
    /\ wk_pc[t] = "Lock"
    /\ LockTest(wk_loc[t].count)
    /\ \E c \in ReadReference :
          /\ c = wk_loc[t].count
          /\ reference_' = Written(reference_, c + 1)
    /\ wk_loc' = [wk_loc EXCEPT ![t].cas = wk_zero]
    /\ wk_pc' = [wk_pc EXCEPT ![t] = "AddRef"]
    /\ wk_ub' = (wk_ub \/ wk_freed > 0)
    /\ UNCHANGED <<weak_, wk_deleted, wk_freed, wk_strong, wk_weak, wk_zero, wk_call>>
    /\ UNCHANGED exceptWk

\* compare_exchange_weak fails (the value differs, or spuriously): count is reloaded.
LockRetries(t) ==
    /\ wk_pc[t] = "Lock"
    /\ LockTest(wk_loc[t].count)
    /\ \E c \in ReadReference : wk_loc' = [wk_loc EXCEPT ![t].count = c]
    /\ wk_ub' = (wk_ub \/ wk_freed > 0)
    /\ UNCHANGED <<reference_, weak_, wk_deleted, wk_freed, wk_strong, wk_weak, wk_pc, wk_zero, wk_call>>
    /\ UNCHANGED exceptWk

\* WeakPtr::Lock: IncursivePtr<T> iptr(ptr_), that is ptr_->AddRef().
LockAddRef(t) ==
    /\ wk_pc[t] = "AddRef"
    /\ \E c \in ReadReference : reference_' = Written(reference_, c + 1)
    /\ wk_pc' = [wk_pc EXCEPT ![t] = "LockDecRefTest"]
    /\ wk_ub' = (wk_ub \/ wk_freed > 0 \/ wk_deleted > 0)
    /\ UNCHANGED <<weak_, wk_deleted, wk_freed, wk_strong, wk_weak, wk_loc, wk_zero, wk_call>>
    /\ UNCHANGED exceptWk

\* WeakPtr::Lock: ptr_->DecRef() gives back what RefObjectImpl::Lock took.
LockDecRef(t) ==
    /\ wk_pc[t] = "LockDecRefTest"
    /\ DecRefTest(t, TRUE)

WkNext ==
    \E t \in WkThreads :
        \/ WkCopy(t)
        \/ WkNewWeak(t)
        \/ WkCopyWeak(t)
        \/ WkReset(t)
        \/ DecWeakRef(t)
        \/ WkRelease(t)
        \/ DecRefCount(t)
        \/ Destructor(t)
        \/ WkLock(t)
        \/ LockFails(t)
        \/ LockExchanges(t)
        \/ LockRetries(t)
        \/ LockAddRef(t)
        \/ LockDecRef(t)

\* References every thread accounts for: the handles it holds, the handle it is
\* releasing up to the decrement, and what a running Lock() has added so far.
InFlight(t) ==
    CASE wk_pc[t] \in {"DecRef", "AddRef"} -> 1
      [] wk_pc[t] \in {"LockDecRefTest", "LockDecRef"} -> 2
      [] OTHER -> 0
Accounted == WkSum([t \in WkThreads |-> wk_strong[t] + InFlight(t)], WkThreads)
\* Weak references accounted for: handles held and handles in DecWeakRef before the decrement.
WeakAccounted == WkSum([t \in WkThreads |-> wk_weak[t] + (IF wk_pc[t] = "DecWeakRef" THEN 1 ELSE 0)], WkThreads)

\* ====================================================================== Anys
AnThreads == 1..NumAnThreads
\* The types handed to Register<T>: sizeof(T) is a multiple of alignof(T), a power of two.
AnTypes ==
    {[size |-> s, align |-> a] : s \in 1..MaxTypeSize, a \in {2^k : k \in 0..MaxAlignBits}}
        \cap {ty \in [size : 1..MaxTypeSize, align : 1..MaxTypeSize] : ty.size % ty.align = 0}
NoType == [size |-> 0, align |-> 0]
NoAnLoc == [type |-> NoType, after |-> FALSE, early |-> FALSE]
NoAnCall == [op |-> "none", ret |-> 0 - 1, after |-> FALSE, early |-> FALSE, nth |-> 0, added |-> 0]
NoInstance == [built |-> FALSE, n |-> 0, len |-> 0, offsets_ |-> <<>>]
\* Register left by throw std::logic_error.
Throw == 0 - 2

\* The function-local statics of one Anys<Group>, before any call.
AnStart ==
    /\ an_keys = <<>>
    /\ an_storageLen = 0
    /\ an_size = 0
    /\ an_mutex = 0
    /\ an_guard = FALSE
    /\ an_pc = [t \in AnThreads |-> "idle"]
    /\ an_loc = [t \in AnThreads |-> NoAnLoc]
    /\ an_inst = NoInstance
    /\ an_built = 0
    /\ an_begun = FALSE
    /\ an_done = 0
    /\ an_call = NoAnCall
AnIdle == AnStart

\* (x + align - 1) & ~(align - 1)
RoundUp(x, align) == BitAnd(x + align - 1, 2^AddrBits - align)

\* Register<T>(constructor, destructor) is called.
AnRegister(t) ==
    /\ an_pc[t] = "idle"
    /\ Len(an_keys) + Cardinality({u \in AnThreads : an_pc[u] \in {"mutex", "try_lock", "body", "return"}}) < MaxKeys
    /\ \E ty \in AnTypes :
          an_loc' = [an_loc EXCEPT ![t] = [type |-> ty, after |-> an_built > 0, early |-> FALSE]]
    /\ an_pc' = [an_pc EXCEPT ![t] = "mutex"]
    /\ UNCHANGED <<an_keys, an_storageLen, an_size, an_mutex, an_guard, an_inst, an_built,
                   an_begun, an_done, an_call>>
    /\ UNCHANGED exceptAn

\* std::unique_lock<std::mutex> lock(GetMutex())
AnRegMutex(t) ==
    /\ an_pc[t] = "mutex"
    /\ an_mutex = 0
    /\ an_mutex' = t
    /\ an_pc' = [an_pc EXCEPT ![t] = "try_lock"]
    /\ UNCHANGED <<an_keys, an_storageLen, an_size, an_guard, an_loc, an_inst, an_built,
                   an_begun, an_done, an_call>>
    /\ UNCHANGED exceptAn

\* if (!inited.try_lock()) throw std::logic_error(...): the mutex is released on the way out.
AnRegThrow(t) ==
    /\ an_pc[t] = "try_lock"
    /\ an_guard
    /\ an_mutex' = 0
    /\ an_pc' = [an_pc EXCEPT ![t] = "idle"]
    /\ an_loc' = [an_loc EXCEPT ![t] = NoAnLoc]
    /\ an_call' = [op |-> "Register", ret |-> Throw, after |-> an_loc[t].after, early |-> ~an_begun,
                   nth |-> an_done, added |-> 0]
    /\ UNCHANGED <<an_keys, an_storageLen, an_size, an_guard, an_inst, an_built, an_begun, an_done>>
    /\ UNCHANGED exceptAn

\* inited.try_lock() takes the init guard.
AnRegTryLock(t) ==
    /\ an_pc[t] = "try_lock"
    /\ ~an_guard
    /\ an_guard' = TRUE
    /\ an_pc' = [an_pc EXCEPT ![t] = "body"]
    /\ UNCHANGED <<an_keys, an_storageLen, an_size, an_mutex, an_loc, an_inst, an_built,
                   an_begun, an_done, an_call>>
    /\ UNCHANGED exceptAn

\* GetKeys().push_back(info); StorageLen() += (size + align - 1) & ~(align - 1); Size()++
AnRegBody(t) ==
    /\ an_pc[t] = "body"
    /\ LET ty == an_loc[t].type
       IN  /\ an_keys' = Append(an_keys, [align |-> ty.align, size |-> ty.size, offset |-> an_storageLen])
           /\ an_storageLen' = an_storageLen + RoundUp(ty.size, ty.align)
    /\ an_size' = an_size + 1
    /\ an_pc' = [an_pc EXCEPT ![t] = "return"]
    /\ UNCHANGED <<an_mutex, an_guard, an_loc, an_inst, an_built, an_begun, an_done, an_call>>
    /\ UNCHANGED exceptAn

\* return GetKeys().size() - 1: `inited` unlocks the init guard, `lock` the mutex.
AnRegReturn(t) ==
    /\ an_pc[t] = "return"
    /\ an_guard' = FALSE
    /\ an_mutex' = 0
    /\ an_pc' = [an_pc EXCEPT ![t] = "idle"]
    /\ an_loc' = [an_loc EXCEPT ![t] = NoAnLoc]
    /\ an_call' = [op |-> "Register", ret |-> Len(an_keys) - 1, after |-> an_loc[t].after,
                   early |-> ~an_begun, nth |-> an_done, added |-> 1]
    /\ an_done' = an_done + 1
    /\ UNCHANGED <<an_keys, an_storageLen, an_size, an_inst, an_built, an_begun>>
    /\ UNCHANGED exceptAn

\* Anys(): GetInitGuard().try_lock(), whose result is not looked at.
AnConstruct(t) ==
    /\ an_pc[t] = "idle"
    /\ an_built + Cardinality({u \in AnThreads : an_pc[u] = "layout"}) < MaxInstances
    /\ an_guard' = TRUE
    /\ an_begun' = TRUE
    /\ an_pc' = [an_pc EXCEPT ![t] = "layout"]
    /\ UNCHANGED <<an_keys, an_storageLen, an_size, an_mutex, an_loc, an_inst, an_built,
                   an_done, an_call>>
    /\ UNCHANGED exceptAn

\* Anys(): nothing is allocated without registered types; else the block is
\* allocated with StorageLen() bytes of data area and offsets_[i] is set to
\* (keyInfo.offset + align - 1) & ~(align - 1).
AnLayout(t) ==
    /\ an_pc[t] = "layout"
    /\ an_inst' = IF an_size = 0
                    THEN [NoInstance EXCEPT !.built = TRUE]
                    ELSE [built |-> TRUE, n |-> an_size, len |-> an_storageLen,
                          offsets_ |-> [i \in 1..an_size |->
                                          RoundUp(an_keys[i].offset, an_keys[i].align)]]
    /\ an_built' = an_built + 1
    /\ an_pc' = [an_pc EXCEPT ![t] = "idle"]
    /\ UNCHANGED <<an_keys, an_storageLen, an_size, an_mutex, an_guard, an_loc, an_begun,
                   an_done, an_call>>
    /\ UNCHANGED exceptAn

AnNext ==
    \E t \in AnThreads :
        \/ AnRegister(t)
        \/ AnRegMutex(t)
        \/ AnRegThrow(t)
        \/ AnRegTryLock(t)
        \/ AnRegBody(t)
        \/ AnRegReturn(t)
        \/ AnConstruct(t)
        \/ AnLayout(t)

\* The bytes of the data area the instance uses for its i-th object.
ObjectBytes(i) == {b \in 0..(2 * MaxKeys * MaxTypeSize) :
                      an_inst.offsets_[i] <= b /\ b < an_inst.offsets_[i] + an_keys[i].size}

\* ------------------------------------------------------------ specifications
RqIdle ==
    /\ capacity_ = 1
    /\ buffer_ = [i \in {0} |-> RawSlot]
    /\ write_ = 0 /\ writable_ = 0 /\ read_ = 0 /\ readable_ = 0
    /\ role = [t \in RqThreads |-> "none"]
    /\ rq_pc = [t \in RqThreads |-> "idle"]
    /\ loc = [t \in RqThreads |-> NoLocals]
    /\ result = [t \in RqThreads |-> NoResult]
    /\ nextVal = 1
    /\ budget = 0
    /\ pushed = <<>>
    /\ popped = <<>>
    /\ emptySeen = FALSE
    /\ hazard = {}

\* The components added after the queues, at rest.
RestIdle == LlIdle /\ CxIdle /\ PlIdle /\ GpIdle /\ WkIdle /\ RdIdle /\ AnIdle
\* The components added after the guard pages, idle.
NewIdle == WkIdle /\ RdIdle /\ AnIdle
\* The switcher, the ring and the queues at rest.
FirstIdle == SwInit /\ RqIdle /\ RcIdle /\ TsInit

\* One sleep cycle of a PThreadSwitcher with NumWakers waking threads.
SwitcherInit == SwInit /\ RqIdle /\ RcIdle /\ TsInit /\ RestIdle
SwitcherSpec == SwitcherInit /\ [][SwNext]_vars
SwitcherFairSpec ==
    /\ SwitcherSpec
    /\ WF_vars(SleeperStep)
    /\ \A w \in Wakers : WF_vars(WakerStep(w))

\* One thread calling Push and Pop in any order.
SeqRoles == [t \in RqThreads |-> IF t = 1 THEN "both" ELSE "none"]
SeqInit == SwInit /\ RcIdle /\ TsInit /\ RestIdle /\ \E c \in 1..MaxRequested : RqInit(c, SeqRoles, MaxPush)
SeqSpec == SeqInit /\ [][RqNext]_vars

\* One producer thread and one consumer thread.
SpscRoles ==
    [t \in RqThreads |-> IF t = 1 THEN "producer" ELSE IF t = 2 THEN "consumer" ELSE "none"]
SpscInit == SwInit /\ RcIdle /\ TsInit /\ RestIdle /\ \E c \in 1..MaxRequested : RqInit(c, SpscRoles, MaxPush)
SpscSpec == SpscInit /\ [][RqNext]_vars

\* NumProducers producer threads and one consumer thread.
MpscRoles ==
    [t \in RqThreads |-> IF t <= NumProducers THEN "producer"
                         ELSE IF t = NumProducers + 1 THEN "consumer" ELSE "none"]
MpscInit == SwInit /\ RcIdle /\ TsInit /\ RestIdle /\ \E c \in 1..MaxRequested : RqInit(c, MpscRoles, MaxRacingPush)
MpscSpec == MpscInit /\ [][RqNext]_vars

\* One producer thread and NumConsumers consumer threads.
SpmcRoles ==
    [t \in RqThreads |-> IF t = 1 THEN "producer"
                         ELSE IF t > NumProducers THEN "consumer" ELSE "none"]
SpmcInit == SwInit /\ RcIdle /\ TsInit /\ RestIdle /\ \E c \in 1..MaxRequested : RqInit(c, SpmcRoles, MaxRacingPush)
SpmcSpec == SpmcInit /\ [][RqNext]_vars

\* reCapacity applied to every capacity of RcRequests.
RcSpecInit == SwInit /\ RqIdle /\ TsInit /\ RcInit(RcRequests) /\ RestIdle
RcSpec == RcSpecInit /\ [][RcNext]_vars

\* One thread using NumQueues queues and NumLists list handles.
TsSeqInit == SwInit /\ RqIdle /\ RcIdle /\ TsInit /\ RestIdle
TsSeqSpec == TsSeqInit /\ [][TsSeqNext]_vars

\* One thread calling push and pop, a step per lock operation.
TsFifoInit == SwInit /\ RqIdle /\ RcIdle /\ RestIdle /\ TsStart({1}, [Elements -> 0..MaxOwners])
TsFifoSpec == TsFifoInit /\ [][TsConcNext]_vars

\* NumTsThreads threads calling push and pop, on elements that all have the
\* same number of outside owners.
TsConcInit ==
    SwInit /\ RqIdle /\ RcIdle /\ RestIdle /\ TsStart(TsThreads, {[e \in Elements |-> k] : k \in 0..MaxOwners})
TsConcSpec == TsConcInit /\ [][TsConcNext]_vars

\* A list linked by hand in the first handle, as the SList tests build it,
\* from elements that carry the references of their outside owners.
LinkedByHand(s) ==
    [x \in Nodes |->
        IF \E k \in 1..Len(s) : s[k] = x
        THEN LET k == CHOOSE j \in 1..Len(s) : s[j] = x
             IN  [prev |-> IF k = 1 THEN Null ELSE s[k - 1],
                  next |-> IF k = Len(s) THEN Null ELSE s[k + 1],
                  check_ |-> Null]
        ELSE NoHook]
SListStart(s) ==
    /\ hook = LinkedByHand(s)
    /\ queue = [q \in Queues |-> [head_ |-> Sentinel(q), tail_ |-> Sentinel(q), count_ |-> 0]]
    /\ slist = [h \in Lists |->
                   IF h = 1 /\ s # <<>>
                   THEN [head_ |-> s[1], tail_ |-> s[Len(s)], count_ |-> Len(s)]
                   ELSE EmptyList]
    /\ refCount \in [Elements -> 0..MaxOwners]
    /\ destroyed = {}
    /\ owners = refCount
    /\ ts_lock = [q \in Queues |-> Null]
    /\ ts_pc = [t \in TsThreads |-> "off"]
    /\ ts_call = [t \in TsThreads |-> NoCall]
    /\ ts_abort = FALSE
\* Every list of distinct elements.
ListsByHand ==
    {s \in UNION {[1..k -> Elements] : k \in 0..NumElements} :
        \A j, k \in 1..Len(s) : s[j] = s[k] => j = k}
SListNext ==
    \/ \E l, o \in Lists, n \in 0..(NumElements + 1) : ListCut(l, n, o)
    \/ \E l \in Lists : ListClear(l)
SListInit == SwInit /\ RqIdle /\ RcIdle /\ RestIdle /\ \E s \in ListsByHand : SListStart(s)
SListSpec == SListInit /\ [][SListNext]_vars

\* One caller pushing, reading and unlinking on NumLlLists lists; unlink is
\* handed nodes of the list and nodes that no list holds.
LlInit == FirstIdle /\ LlStart(FALSE) /\ CxIdle /\ PlIdle /\ GpIdle /\ NewIdle
LlSpec == LlInit /\ [][LlNext]_vars
\* The same, unlink also handed nodes that another list holds.
LlAnyInit == FirstIdle /\ LlStart(TRUE) /\ CxIdle /\ PlIdle /\ GpIdle /\ NewIdle
LlAnySpec == LlAnyInit /\ [][LlNext]_vars

\* One waiter in wait and NumWakers threads in wake_one on one wait queue.
WqInit == FirstIdle /\ WqStart /\ CxIdle /\ PlIdle /\ GpIdle /\ NewIdle
WqSpec == WqInit /\ [][WqNext]_vars
\* Every thread that can take a step again and again eventually takes one: no
\* thread is kept from a lock for ever by the others taking it in turn.
WqFairSpec ==
    /\ WqSpec
    /\ SF_vars(WqWaiterStep)
    /\ \A w \in Wakers : SF_vars(WqWakerStep(w))

\* Contexts of one carrier thread switched by SwapIn, SwapTo and SwapOut, a
\* SwapIn issued from the thread's own stack or from inside a Context.
CxInit == FirstIdle /\ LlIdle /\ CxStart /\ PlIdle /\ GpIdle /\ NewIdle
CxSpec == CxInit /\ [][CxNext]_vars

\* Registrations and selections of the switcher policy in any order.
PlInit == FirstIdle /\ LlIdle /\ CxIdle /\ PlStart /\ GpIdle /\ NewIdle
PlSpec == PlInit /\ [][PlNext]_vars

\* One Context created and destroyed again and again, on any stack, under
\* any guard page count.
GpInit == FirstIdle /\ LlIdle /\ CxIdle /\ PlIdle /\ GpStart /\ NewIdle
GpSpec == GpInit /\ [][GpNext]_vars

\* One SharedRefWrapper object, its strong and weak handles created, upgraded and
\* released by NumWkThreads threads in any interleaving.
WkInit == FirstIdle /\ LlIdle /\ CxIdle /\ PlIdle /\ GpIdle /\ WkStart /\ RdIdle /\ AnIdle
WkSpec == WkInit /\ [][WkNext]_vars

\* One thread calling Push and Pop in any order, then the destructor.
RdSpec == SeqInit /\ [][RdNext]_vars

\* Register calls and constructions of one Anys<Group> on NumAnThreads threads.
AnInit == FirstIdle /\ LlIdle /\ CxIdle /\ PlIdle /\ GpIdle /\ WkIdle /\ RdIdle /\ AnStart
AnSpec == AnInit /\ [][AnNext]_vars

\* One thread calling every operation of the queues and list handles, erase
\* only with a node the queue links.
TsMemberNext ==
    \/ \E e \in Elements : Acquire(e) \/ Release(e)
    \/ \E q \in Queues, e \in Elements : TsPush(q, e)
    \/ \E q \in Queues, e \in Elements, check \in BOOLEAN : InQueue(q, e) /\ TsErase(q, e, check)
    \/ \E q \in Queues : TsPop(q)
    \/ \E q \in Queues, l \in Lists : TsPushList(q, l) \/ TsPopAll(q, l)
    \/ \E q \in Queues, l \in Lists, n \in 0..(NumElements + 1) :
           TsPopFront(q, n, l) \/ TsPopBack(q, n, l)
    \/ \E l, o \in Lists, n \in 0..(NumElements + 1) : ListCut(l, n, o)
    \/ \E l \in Lists : ListClear(l)
TsMemberSpec == TsSeqInit /\ [][TsMemberNext]_vars

\* One thread calling push and pop on queues that are alive, and the
\* destructor of a queue, with outside owners coming and going.
TsDtorNext ==
    \/ \E e \in Elements : Acquire(e) \/ Release(e)
    \/ \E q \in Queues, e \in Elements : Alive(q) /\ TsPush(q, e)
    \/ \E q \in Queues : Alive(q) /\ TsPop(q)
    \/ \E q \in Queues : TsDestroy(q)
TsDtorSpec == TsSeqInit /\ [][TsDtorNext]_vars

\* NumProducers threads that each push and pop, under fair scheduling: a thread
\* inside a call goes on taking steps, and an exchange that is tried again and
\* again does not fail spuriously for ever.  No thread is bound to start a call.
MpmcRoles == [t \in RqThreads |-> IF t <= NumProducers THEN "both" ELSE "none"]
MpmcInit == SwInit /\ RcIdle /\ TsInit /\ RestIdle /\ \E c \in 1..MaxRequested : RqInit(c, MpmcRoles, MaxFairPush)
RqCallStep(t) ==
    \/ PushLoadWrite(t) \/ PushLoadWritable(t) \/ PushClaim(t) \/ PushConstruct(t)
    \/ PushLoadReadable(t) \/ PushPublish(t)
    \/ PopLoadRead(t) \/ PopLoadReadable(t) \/ PopClaim(t) \/ PopMove(t)
    \/ PopReclaim(t) \/ PopNotify(t)
RqExchange(t) == PushClaim(t) \/ PushPublish(t) \/ PopClaim(t) \/ PopReclaim(t)
MpmcFairSpec ==
    /\ MpmcInit
    /\ [][RqNext]_vars
    /\ \A t \in RqThreads : WF_vars(RqCallStep(t)) /\ SF_vars(RqExchange(t))

\* ===================================================================== claims
Range(q) == {q[k] : k \in 1..Len(q)}
IsPrefix(a, b) == Len(a) <= Len(b) /\ \A k \in 1..Len(a) : a[k] = b[k]
NoDuplicates(q) == \A j, k \in 1..Len(q) : q[j] = q[k] => j = k

\* Indices from cursor `from` up to, not including, cursor `to`, around the ring.
RingRange(from, to) ==
    {mod(from + k) : k \in 0..(mod(to + capacity_ - from) - 1)}
\* [read_, readable_): the indices a Pop may claim
ReadableRange == RingRange(read_, readable_)
\* [write_, writable_): the indices a Push may claim
WritableRange == RingRange(write_, writable_)

\* Ring threads that have returned from a call of the given kind.
After(t, op) == rq_pc[t] = "idle" /\ loc[t].op = op

\* C1: once every wake() call has completed and one issued after mark() has
\* woken the switcher (returned true), sleep() eventually returns, whether
\* that wake landed before sleep() was entered or after the sleeper parked.
WakeDelivered ==
    /\ \A w \in Wakers : sw_pc[w] = "done"
    /\ \E w \in wakeAfterMark : sw_ret[w] = "true"
C1_SleepReturnsAfterWake == [](WakeDelivered => <>(sw_pc[Sleeper] = "returned"))

\* C2: of the wake() calls issued after mark() in one mark-then-sleep cycle,
\* at most one returns true, and once all of them have returned exactly one did.
C2_ExactlyOneWakeSucceeds ==
    LET won == {w \in wakeAfterMark : sw_ret[w] = "true"}
    IN  /\ Cardinality(won) <= 1
        /\ (wakeAfterMark = Wakers /\ \A w \in Wakers : sw_pc[w] = "done")
               => Cardinality(won) = 1

\* C3: every index in the readable range holds a constructed value, and no
\* Pop has moved a value out of a slot where none was constructed.
C3_ReadableOnlyAfterConstruct ==
    /\ \A i \in ReadableRange : buffer_[i].live
    /\ "rawread" \notin hazard

\* C4: no index in the writable range still holds a live value, and no Push
\* has constructed into a slot holding a live value.
C4_WritableOnlyAfterDestroy ==
    /\ \A i \in WritableRange : ~buffer_[i].live
    /\ "overwrite" \notin hazard

\* Values handed to a Push that has claimed its slot or has returned success.
GivenToPush ==
    Range(pushed) \cup
    {loc[t].arg : t \in {x \in RqThreads :
        rq_pc[x] \in {"push_construct", "push_load_readable", "push_publish"}}}
\* All producers are done, and after the last Push completed a Pop has found
\* the queue empty.
Drained ==
    /\ nextVal > budget
    /\ \A t \in RqThreads : rq_pc[t] = "idle"
    /\ emptySeen

\* C5: every popped value was given to a successful Push, no pushed value is
\* popped twice, and once the producers are done and a Pop has failed, every
\* pushed value has been popped.
C5_PushedPoppedExactlyOnce ==
    /\ Range(popped) \subseteq GivenToPush
    /\ NoDuplicates(popped)
    /\ Drained => Range(pushed) \subseteq Range(popped)

\* C6: with one producer and one consumer, the popped values are a prefix of
\* the pushed values and at most capacity() values are stored.
C6_SpscPrefixAndBound ==
    /\ IsPrefix(popped, pushed)
    /\ Stored <= capacity
C6_Witness ==
    /\ capacity_ > 2
    /\ rq_pc[1] = "push_publish" /\ rq_pc[2] = "pop_reclaim"
    /\ Len(popped) >= capacity_
    /\ Stored = capacity - 1

\* C7: a successful Push that completes after a Pop found the queue empty,
\* with no Push completed in between, returns notify = true.
C7_PushAfterEmptyNotifies ==
    \A p \in RqThreads :
        (After(p, "push") /\ result[p].success /\ loc[p].afterEmpty) => result[p].notify

\* C8: single-threaded, Pop returns the oldest value pushed and not yet
\* popped, Push succeeds exactly when fewer than capacity() values are stored
\* and Pop succeeds exactly when at least one is.
C8_SeqFifo ==
    /\ IsPrefix(popped, pushed)
    /\ rq_pc[1] = "idle" => Stored = Len(pushed) - Len(popped)
    /\ After(1, "push") => (result[1].success <=> loc[1].pre < capacity)
    /\ After(1, "pop") => (result[1].success <=> loc[1].pre >= 1)
    /\ (After(1, "pop") /\ result[1].success) =>
           /\ loc[1].t = popped[Len(popped)]
           /\ loc[1].t = pushed[Len(popped)]
C8_Witness ==
    /\ After(1, "pop") /\ result[1].success
    /\ capacity_ > 2
    /\ Len(popped) > capacity_
    /\ loc[1].pre = 1

\* C9: single-threaded, a successful Push returns notify = true exactly when
\* the queue held no element before it; a failed Push returns notify = false.
C9_SeqPushNotify ==
    After(1, "push") =>
        IF result[1].success THEN result[1].notify <=> loc[1].pre = 0
        ELSE ~result[1].notify
C9_Witness ==
    /\ After(1, "push") /\ result[1].success /\ result[1].notify
    /\ capacity_ > 2
    /\ Len(pushed) > capacity_

\* C10: single-threaded, a successful Pop returns notify = true exactly when
\* the queue held capacity() elements before it; a failed Pop returns
\* notify = false.
C10_SeqPopNotify ==
    After(1, "pop") =>
        IF result[1].success THEN result[1].notify <=> loc[1].pre = capacity
        ELSE ~result[1].notify
C10_Witness ==
    /\ After(1, "pop") /\ result[1].success /\ result[1].notify
    /\ capacity_ > 2
    /\ Len(popped) >= 1

\* C11: single-threaded, no step of a Push that began with capacity() values
\* stored, and no step of a Pop that began with none stored, changes a cursor,
\* a slot or the caller's output variable, and the call returns success =
\* false, notify = false.
FailingCall ==
    /\ rq_pc[1] # "idle"
    /\ \/ loc[1].op = "push" /\ loc[1].pre = capacity
       \/ loc[1].op = "pop" /\ loc[1].pre = 0
C11_FailedCallChangesNothing ==
    [][FailingCall =>
          /\ UNCHANGED <<write_, writable_, read_, readable_, buffer_>>
          /\ loc'[1].t = loc[1].t
          /\ rq_pc'[1] = "idle" => result'[1] = NoResult]_vars
C11_Witness ==
    /\ After(1, "pop") /\ ~result[1].success /\ loc[1].pre = 0
    /\ capacity_ > 2
    /\ Len(popped) = capacity
    /\ Len(pushed) < nextVal - 1

\* C12: for every requested capacity from 1 up to the clamp, capacity() is
\* P - 1 for the smallest power of two P >= the request, and a fresh queue
\* accepts exactly capacity() Pushes before one fails.
SmallestPowerOfTwo(w) ==
    IF Cardinality(w) = 1 THEN w ELSE {HighestOf(w) + 1}
BelowClamp(w) == w # {} /\ ~WordGeq(w, WordShr(WordMax, 1))
C12_CapacityIsPowerOfTwoMinusOne ==
    /\ (rc_pc = "done" /\ BelowClamp(rc_requested)) =>
           WordDec(rc_capacity) = WordDec(SmallestPowerOfTwo(rc_requested))
    /\ (After(1, "push") /\ popped = <<>>) =>
           (result[1].success <=> loc[1].pre < capacity)

\* C13: for every requested capacity at or above max(SizeType) / 2 the slot
\* count is a power of two, so that val & (slots - 1) is val modulo slots:
\* every val below the slot count is mapped to itself.
C13_ClampedCapacityIsPowerOfTwo ==
    (rc_pc = "done" /\ WordGeq(rc_requested, WordShr(WordMax, 1))) =>
        /\ Cardinality(rc_capacity) = 1
        /\ \A val \in RcRequests :
               ~WordGeq(val, rc_capacity) => WordAnd(val, WordDec(rc_capacity)) = val

\* C14: erase(node, true) on a queue in which node is not linked (it is in
\* another queue, was moved out by pop_front / pop_back / pop_all into a list
\* or on into another queue by a batch push, or is in no container) returns
\* false and changes neither queue nor the node; it returns true only for a
\* node linked in that queue.
C14_EraseRejectsForeignNode ==
    [][\A q \in Queues, e \in Elements :
          (TsErase(q, e, TRUE) /\ ~InQueue(q, e)) =>
              /\ ~EraseReturns(q, e, TRUE)
              /\ UNCHANGED <<hook, queue, slist, refCount, destroyed, ts_abort>>]_vars

\* C15: the pointer a successful pop() returns is an element that has not
\* been destroyed, whatever its reference count was before the call, the
\* case in which the queue held its only reference included.
C15_PopReturnsLiveElement ==
    [][\A q \in Queues :
          (TsPop(q) /\ ~PopSeesEmpty(q)) => PopPtr(q) \notin destroyed']_vars

\* What the threads have pushed and what pop has handed them, as sets.
AllPut == UNION {Range(ts_call[t].put) : t \in TsThreads}
AllGot == UNION {Range(ts_call[t].got) : t \in TsThreads}
Quiescent == \A t \in TsThreads : ts_pc[t] \in {"idle", "off"}

C17_SingleThreadFifo ==
    LET c == ts_call[1]
    IN  /\ IsPrefix(c.got, c.put)
        /\ (ts_pc[1] = "idle" /\ c.op = "pop") =>
               IF c.ptr = Null THEN Len(c.got) = Len(c.put)
               ELSE c.got # <<>> /\ c.ptr = c.got[Len(c.got)]
        /\ ts_pc[1] = "idle" =>
               /\ size(1) = Len(c.put) - Len(c.got)
               /\ empty(1) <=> Len(c.put) = Len(c.got)
\* All the elements pushed, popped in order, and one more pop that found
\* the queue empty.
C17_Witness ==
    LET c == ts_call[1]
    IN  /\ ts_pc[1] = "idle" /\ c.op = "pop" /\ c.ptr = Null
        /\ Len(c.put) = NumElements /\ c.got = c.put
        /\ c.put[1] > c.put[2]

\* The elements some queue or list handle links.
Linked(e) ==
    \/ \E q \in Queues : InQueue(q, e)
    \/ \E l \in Lists : e \in Range(ListSeq(l))
\* C18: every live element's reference count is the number of its outside
\* owners plus one if a queue or a detached list links it and plus nothing if
\* none does, and no container links a destroyed element: push(element) has
\* added one, pop() and erase() have taken one off, pop_front, pop_back,
\* pop_all and the batch push have moved elements between containers without
\* touching a count.
C18_OneReferencePerContainer ==
    /\ \A e \in Elements \ destroyed :
           refCount[e] = owners[e] + (IF Linked(e) THEN 1 ELSE 0)
    /\ \A e \in destroyed : ~Linked(e) /\ refCount[e] = 0
\* An element pushed to the first queue has travelled through a list into the
\* second queue and is held by an owner too, another has been destroyed by
\* the call that took it out of its container, a third sits in a list.
C18_Witness ==
    \E a, b, c \in Elements :
        /\ InQueue(2, a) /\ hook[a].check_ = 1 /\ owners[a] = 1 /\ refCount[a] = 2
        /\ b \in destroyed
        /\ \E l \in Lists : c \in Range(ListSeq(l)) /\ refCount[c] = 1

\* C19: for every n >= 0 and a queue of s elements, pop_front(n) returns the
\* first min(n, s) elements in order and pop_back(n) the last min(n, s) in
\* order; the queue keeps the others in order and its count goes down by the
\* number returned.
MinOf(a, b) == IF a < b THEN a ELSE b
C19_BatchPopTakesMinOfNAndSize ==
    [][\A q \in Queues, l \in Lists, n \in 0..(NumElements + 1) :
          LET s == QueueSeq(q)
              k == MinOf(n, Len(s))
          IN  /\ (TsPopFront(q, n, l) /\ ~ts_abort') =>
                     /\ ListSeq(l)' = SubSeq(s, 1, k)
                     /\ QueueSeq(q)' = SubSeq(s, k + 1, Len(s))
                     /\ slist'[l].count_ = k
                     /\ queue'[q].count_ = queue[q].count_ - k
              /\ (TsPopBack(q, n, l) /\ ~ts_abort') =>
                     /\ ListSeq(l)' = SubSeq(s, Len(s) - k + 1, Len(s))
                     /\ QueueSeq(q)' = SubSeq(s, 1, Len(s) - k)
                     /\ slist'[l].count_ = k
                     /\ queue'[q].count_ = queue[q].count_ - k]_vars

\* A list handle whose head, tail and count fit its chain, the chain linked
\* both ways and tied to nothing outside it.
WellFormedList(l) ==
    LET s == ListSeq(l)
    IN  /\ slist[l].count_ = Len(s)
        /\ IF s = <<>> THEN slist[l] = EmptyList
           ELSE /\ slist[l].head_ = s[1] /\ slist[l].tail_ = s[Len(s)]
                /\ hook[s[1]].prev = Null /\ hook[s[Len(s)]].next = Null
                /\ \A k \in 2..Len(s) : hook[s[k]].prev = s[k - 1]
\* C20: for a list of L elements and every n >= 0, cut(n) returns the first
\* min(n, L) elements in order and leaves the others, in order, in the
\* source; both lists have head, tail and count that fit their chains, and no
\* link joins the two.
C20_CutSplitsAtN ==
    [][\A l, o \in Lists, n \in 0..(NumElements + 1) :
          LET s == ListSeq(l)
              k == MinOf(n, Len(s))
          IN  (WellFormedList(l) /\ ListCut(l, n, o)) =>
                  /\ ~ts_abort'
                  /\ ListSeq(o)' = SubSeq(s, 1, k)
                  /\ ListSeq(l)' = SubSeq(s, k + 1, Len(s))
                  /\ WellFormedList(o)' /\ WellFormedList(l)'
                  /\ UNCHANGED <<refCount, destroyed>>]_vars
\* A list of three has been cut after its second element.
C20_Witness ==
    /\ Len(ListSeq(2)) = NumElements - 1 /\ Len(ListSeq(1)) = 1
    /\ ListSeq(2)[1] > ListSeq(2)[2]
    /\ WellFormedList(1) /\ WellFormedList(2)

\* --------------------------------------------------------------------- C21
\* C21: in the wait queue (waiter: mark, link its record under the structural
\* lock, release it, sleep; waker: unlink the front record under the lock,
\* release it, wake the record's switcher), once a waker has unlinked the
\* waiter's record the waiter eventually returns from sleep(), also when the
\* wake() lands between the link and the sleep().
RecordUnlinked == \E w \in Wakers : wq_got[w] = 1
C21_UnlinkedWaiterReturns == RecordUnlinked ~> (sw_pc[Sleeper] = "returned")

\* --------------------------------------------------------------------- C22
\* The last call was a SwapOut inside a Context whose latest entry was its own
\* SwapIn().
SwapOutAfterSwapIn == cx_call.op = "SwapOut" /\ cx_call.entered.by = "SwapIn"
\* C22 (as stated): for every sequence of SwapIn, SwapOut and SwapTo on one
\* carrier thread, a SwapIn issued from inside another Context included, a
\* SwapOut inside a Context C entered by C.SwapIn() resumes the caller right
\* after that C.SwapIn().
C22_Original ==
    SwapOutAfterSwapIn =>
        ~cx_ub /\ cx_call.resumed = cx_call.entered.from /\ cx_cur = cx_call.entered.from.unit
\* C22 (amended): the same, for a SwapOut with no other SwapIn issued on the
\* carrier thread since C.SwapIn(): the thread keeps one slot for the saved
\* caller and every SwapIn overwrites it.
C22_SwapOutResumesLatestSwapIn ==
    (SwapOutAfterSwapIn /\ cx_call.entered.clean) =>
        ~cx_ub /\ cx_call.resumed = cx_call.entered.from /\ cx_cur = cx_call.entered.from.unit
\* A Context entered by a SwapIn issued inside another Context swaps out and
\* that other Context goes on after its SwapIn.
C22_Witness ==
    /\ SwapOutAfterSwapIn /\ cx_call.entered.clean
    /\ cx_call.resumed.unit # Carrier
    /\ cx_cur = cx_call.resumed.unit

\* --------------------------------------------------------------------- C23
\* C23: unlink(node) for a node that is not an element of that list returns
\* false and changes no list and no node, whether the node is unlinked or an
\* element of a different LinkedList.
C23_UnlinkOfNonMemberChangesNothing ==
    [][\A l \in LlLists, n \in LlNodes :
          (LlUnlink(l, n) /\ ~LlMember(l, n)) =>
              /\ ll_call'.ret = FALSE
              /\ ll_node' = ll_node
              /\ ll_list' = ll_list]_vars

\* --------------------------------------------------------------------- C24
\* C24: a successful unlink(node) leaves node's prev and next null, and
\* unlink(node) again on the same list, the node not pushed in between,
\* returns false and leaves head_, tail_ and every link unchanged, whichever
\* position (head, middle, tail, sole element) the node was unlinked from.
C24_DoubleUnlinkIsNoOp ==
    [][\A l \in LlLists, n \in LlNodes :
          LlUnlink(l, n) =>
              /\ ll_call'.ret = TRUE => ll_node'[n] = NoLinks
              /\ ll_gone[n].l = l =>
                    /\ ll_call'.ret = FALSE
                    /\ ll_node' = ll_node
                    /\ ll_list' = ll_list]_vars
\* A node unlinked from the middle of a list was handed to unlink again while
\* two nodes remain in the list.
C24_Witness ==
    /\ ll_call.op = "unlink" /\ ll_call.ret = FALSE
    /\ ll_gone[ll_call.n] = [l |-> ll_call.l, pos |-> "middle"]
    /\ Len(LlChain(ll_call.l)) = 2

\* --------------------------------------------------------------------- C25
\* C25: after any sequence of pushes of unlinked nodes and unlinks of member
\* nodes, the list read from front() along next is the pushed nodes minus the
\* unlinked ones in push order; front() returns the oldest remaining node, or
\* null for an empty list, and removes nothing; unlinking the sole element
\* leaves the list empty.
C25_ListIsPushedMinusUnlinked ==
    /\ ~ll_crash
    /\ \A l \in LlLists :
          /\ LlChain(l) = ll_order[l]
          /\ front(l) = IF ll_order[l] = <<>> THEN Null ELSE ll_order[l][1]
          /\ ll_order[l] # <<>> => ll_list[l].tail_ = ll_order[l][Len(ll_order[l])]
    /\ ll_call.op = "front" =>
          ll_call.ret = IF ll_order[ll_call.l] = <<>> THEN Null ELSE ll_order[ll_call.l][1]
    /\ (ll_call.op = "unlink" /\ ll_call.pos = "sole") =>
          /\ LlChain(ll_call.l) = <<>>
          /\ ll_list[ll_call.l] = [head_ |-> Null, tail_ |-> Null]
\* front() was called on a list that has lost its head and a middle node and
\* returned the one node left.
C25_Witness ==
    /\ ll_call.op = "front" /\ ll_call.ret # Null
    /\ ll_order[ll_call.l] = <<ll_call.ret>>
    /\ \E n \in LlNodes : ll_gone[n] = [l |-> ll_call.l, pos |-> "head"]
    /\ \E n \in LlNodes : ll_gone[n] = [l |-> ll_call.l, pos |-> "middle"]

\* --------------------------------------------------------------------- C26
\* C26: RegisterSwitcher(level) returns true and installs the given kind list
\* if and only if level is greater than the level of every earlier successful
\* registration (-1 before the first); otherwise it returns false and changes
\* neither the stored level nor the installed functions; the stored level
\* never decreases.
C26_RegisterOnlyAtHigherLevel ==
    pl_call.op = "RegisterSwitcher" =>
        /\ pl_call.ret = (pl_call.level > pl_call.before.best)
        /\ pl_call.ret => pl_level = pl_call.level /\ pl_kinds = pl_call.kinds
        /\ ~pl_call.ret => pl_level = pl_call.before.level /\ pl_kinds = pl_call.before.kinds
        /\ pl_level >= pl_call.before.level
\* A registration at the level of the one before it, with another kind list,
\* was rejected.
C26_Witness ==
    /\ pl_call.op = "RegisterSwitcher" /\ ~pl_call.ret
    /\ pl_call.level = pl_call.before.level /\ pl_call.level > -1
    /\ pl_call.kinds # pl_call.before.kinds

\* --------------------------------------------------------------------- C27
\* C27: with a kind list S1..Sn registered, ClsRef() returns Si::clsRef() for
\* the smallest i whose Si::isInRoutine() is true and the calling thread's
\* PThreadSwitcher when none is; IsInPThread() returns true exactly when
\* ClsRef() selects the plain-thread switcher.
FirstInRoutine(ks, in) ==
    IF \E i \in 1..Len(ks) : ks[i] \in in
    THEN ks[CHOOSE i \in 1..Len(ks) : ks[i] \in in /\ \A j \in 1..(i - 1) : ks[j] \notin in]
    ELSE "PThreadSwitcher"
C27_SelectsFirstKindInRoutine ==
    /\ (pl_call.op = "ClsRef" /\ pl_call.kinds # <<>>) =>
          pl_call.ret = FirstInRoutine(pl_call.kinds, pl_call.in)
    /\ (pl_call.op = "IsInPThread" /\ pl_call.kinds # <<>>) =>
          pl_call.ret = (FirstInRoutine(pl_call.kinds, pl_call.in) = "PThreadSwitcher")

\* --------------------------------------------------------------------- C28
\* C28: PThreadSwitcher::sleep() returns only after some wake() on that
\* switcher has returned true: a spurious wakeup of the condition variable
\* does not end it, and it has no timeout or cancellation path.
C28_SleepEndsOnlyByWake ==
    sw_pc[Sleeper] = "returned" => \E w \in Wakers : sw_ret[w] = "true"
\* sleep() has returned after one wake() failed and another succeeded.
C28_Witness ==
    /\ sw_pc[Sleeper] = "returned"
    /\ \E w \in Wakers : sw_ret[w] = "true"
    /\ \E w \in Wakers : sw_ret[w] = "false"

\* --------------------------------------------------------------------- C29
\* The lowest page-aligned address that is not below the stack base
AlignUp(stack) == ((stack + PAGE_SIZE - 1) \div PAGE_SIZE) * PAGE_SIZE
\* C29: whenever ProtectStack installs a guard, the protected range starts at
\* the lowest 4096-aligned address >= the stack base and lies inside
\* [stack, stack + size); UnprotectStack with the same stack and page count
\* targets the same range.
C29_GuardAtAlignedLowEnd ==
    /\ (gp_call.op = "Context" /\ gp_call.installed) =>
          /\ gp_ctx.guard.addr = AlignUp(gp_ctx.stack_)
          /\ gp_ctx.stack_ <= gp_ctx.guard.addr
          /\ gp_ctx.guard.addr + gp_ctx.guard.len <= gp_ctx.stack_ + gp_ctx.stackSize_
    /\ (gp_call.op = "~Context" /\ gp_call.installed) => gp_call.unprotect = gp_ctx.guard

\* --------------------------------------------------------------------- C30
\* C30: a Context whose guard was not installed (the stack too small, or the
\* protection call failed) is created all the same, and its teardown changes
\* no page protection; a teardown changes protection only on pages that the
\* creation of the same Context protected.
C30_TeardownTouchesOnlyItsGuard ==
    /\ (gp_call.op = "Context" /\ ~gp_call.installed) =>
          gp_ctx.state = "live" /\ gp_call.changed = {}
    /\ gp_call.op = "~Context" => gp_call.changed \subseteq PagesOf(gp_ctx.guard)

\* C31: WeakPtr::Lock() returns a strong handle only while the strong count is
\* above zero and adds exactly one to it: a Lock() that returned a handle made
\* its exchange before the count had reached zero, a Lock() called after the
\* count reached zero returns a null handle, and the strong count is the number
\* of strong handles held plus what the running calls have added and not yet
\* given back.
C31_LockFollowsStrongCount ==
    /\ wk_call.op = "Lock" /\ wk_call.ret = "handle" => ~wk_call.cas
    /\ wk_call.op = "Lock" /\ wk_call.start => wk_call.ret = "null"
    /\ wk_freed = 0 => reference_ = Accounted

\* C38: the control block is deleted at most once, and only when no strong and
\* no weak handle is left: while a strong handle exists the block stays
\* allocated, also after the last WeakPtr has been released.
C38_BlockFreedOnceAtTheEnd ==
    /\ wk_freed <= 1
    /\ wk_freed > 0 => Accounted = 0 /\ WeakAccounted = 0

\* C32: the destructor of a LockFreeRingQueue destroys every element that was
\* pushed and not popped, each once, and no slot that holds no element,
\* wherever read_ and readable_ stand in the ring.
C32_DestructorDestroysWhatIsLeft ==
    rq_dtor.run => rq_dtor.left = {} /\ rq_dtor.raw = {}

\* C33: a Register call made after an instance has been constructed throws and
\* registers nothing; a Register call that returns before any constructor is
\* entered succeeds, and the successful calls return 0, 1, 2, ... in order.
C33_RegisterOnlyBeforeFirstInstance ==
    an_call.op = "Register" =>
        /\ an_call.after => an_call.ret = Throw
        /\ an_call.ret = Throw => an_call.added = 0
        /\ an_call.early => an_call.ret # Throw
        /\ an_call.ret # Throw => an_call.ret = an_call.nth

\* C39: in a constructed instance the objects of the registered types occupy
\* pairwise disjoint byte ranges of the data area, each starting at a multiple
\* of its type's alignment and ending within the StorageLen() bytes allocated.
C39_ObjectsDisjointAlignedInside ==
    an_inst.built =>
        \A i \in 1..an_inst.n :
            /\ an_inst.offsets_[i] % an_keys[i].align = 0
            /\ an_inst.offsets_[i] + an_keys[i].size <= an_inst.len
            /\ \A j \in 1..an_inst.n : i # j => ObjectBytes(i) \cap ObjectBytes(j) = {}

\* C34: between the calls of push, batch push, pop, pop_front, pop_back,
\* pop_all and erase of a member, in any order, every queue's count_ is the
\* number of nodes linked behind its sentinel, tail_ is the last of them (the
\* sentinel when there is none), head_ is the sentinel, and no sentinel is what
\* pop would hand out or a node of a list handle.
C34_QueueShape ==
    /\ ~ts_abort
    /\ \A q \in Queues :
          LET s == QueueSeq(q)
          IN  /\ queue[q].count_ = Len(s)
              /\ queue[q].tail_ = IF s = <<>> THEN Sentinel(q) ELSE s[Len(s)]
              /\ queue[q].head_ = Sentinel(q)
              /\ Range(s) \subseteq Elements
              /\ ~PopSeesEmpty(q) => PopPtr(q) \in Elements
    /\ \A l \in Lists :
          /\ Range(ListSeq(l)) \subseteq Elements
          /\ {slist[l].head_, slist[l].tail_} \subseteq Elements \cup {Null}
\* A queue that holds an element after a batch pop filled a list handle with two.
C34_Witness ==
    \E q \in Queues, l \in Lists : queue[q].count_ = 1 /\ slist[l].count_ = 2

C36_ListWellFormed ==
    \A l \in LlLists :
        LET c == LlChain(l)
            in(x) == x = Null \/ LlMember(l, x)
        IN  Len(c) > 0 =>
                /\ ll_node[c[1]].prev = Null
                /\ ll_node[c[Len(c)]].next = Null
                /\ \A k \in 1..(Len(c) - 1) : ll_node[c[k + 1]].prev = c[k]
                /\ \A k \in 1..Len(c) : in(ll_node[c[k]].prev) /\ in(ll_node[c[k]].next)

\* C37 as stated: is_linked() is true exactly for the nodes that are an
\* element of a list, whatever the length of the list.
C37_IsLinkedIffMember ==
    \A n \in LlNodes : is_linked(n) <=> \E l \in LlLists : LlMember(l, n)

\* C37 amended: is_linked() is true only for an element of a list, it is true
\* for every element of a list of two or more nodes, and it is false for the
\* node that push has just linked into an empty list.
C37_IsLinkedIsEitherLinkSet ==
    /\ \A n \in LlNodes : is_linked(n) => \E l \in LlLists : LlMember(l, n)
    /\ \A l \in LlLists, n \in LlNodes :
           LlMember(l, n) /\ Len(LlChain(l)) >= 2 => is_linked(n)
    /\ ll_call.op = "push" /\ Len(LlChain(ll_call.l)) = 1 => ~is_linked(ll_call.n)
C37_Witness ==
    /\ ll_call.op = "push" /\ Len(LlChain(ll_call.l)) = 1 /\ ~is_linked(ll_call.n)
    /\ \E l \in LlLists : Len(LlChain(l)) >= 2 /\ \A k \in 1..Len(LlChain(l)) : is_linked(LlChain(l)[k])

\* C40: the destructor of a queue that still links elements lowers the
\* reference count of each of them by exactly one and leaves none of them
\* pointing at the freed sentinel or carrying the queue's tag.
C40_DestructorReleasesElements ==
    [][\A q \in Queues :
          TsDestroy(q) =>
              \A e \in Elements :
                  InQueue(q, e) =>
                      /\ refCount'[e] = refCount[e] - 1
                      /\ hook'[e].prev # Sentinel(q)
                      /\ hook'[e].check_ # q]_vars
==============================================================================
